---- MODULE Spec2Model ----
(***************************************************************************)
(* Order ingestion and reconciliation pipeline of the Novalayer order      *)
(* dashboard: the import handlers of server/routes.ts, the order store of  *)
(* server/storage.ts and the field mappers.                                *)
(*                                                                         *)
(* Strings are sequences of one-character strings, so that trim,           *)
(* toLowerCase, replace, slice and endsWith are computed and not assumed.  *)
(* Column names (the keys of a parsed row) and the enumerations platform   *)
(* and status are atomic strings: the code only compares them.             *)
(* Requests are served one at a time: a handler runs to its response       *)
(* before the next one starts.                                             *)
(***************************************************************************)
EXTENDS Integers, Sequences, FiniteSets, TLC

VARIABLES
  orders,     \* the rows of the orders table (shared/schema.ts), a set of records
  nextId,     \* the next value of the serial primary key
  response,   \* the response of the last request: [op, status, body]
  mapIn,      \* mapper harness: the raw record handed to a field mapper
  mapOut,     \* mapper harness: the record the mapper returned
  csvTel,     \* phone harness: the manifest row's "Tel" cell
  orderTel,   \* phone harness: the phone of a stored order
  telResult,  \* phone harness: what phoneMatch answered
  delimIn,    \* parse harness: the lines of an uploaded file (content.split("\n"))
  delimOut,   \* parse harness: the delimiter parseFile detected
  secrets,    \* the AMAZON_SP_* environment variables that are set
  cachedAccessToken,  \* the module-level token cache (amazon-sp-api.ts)
  tokenExpiresAt,     \* the module-level stored expiry, in ms
  now,        \* Date.now(), in ms
  tokenCalls, \* requests sent to the token endpoint so far
  callers,    \* token spec: the getAccessToken calls in progress, one per fetch
  fetch,      \* fetch spec: the locals and the position of one fetchAmazonOrders call
  retry       \* retry harness: the locals and the position of one fetchWithRetry call

parseVars == <<delimIn, delimOut>>

clientVars == <<secrets, cachedAccessToken, tokenExpiresAt, now, tokenCalls, callers, fetch, retry>>

vars ==
  <<orders, nextId, response, mapIn, mapOut, csvTel, orderTel, telResult, parseVars, clientVars>>

(***************************************************************************)
(* Bounds of the model.                                                    *)
(***************************************************************************)
MaxOrders == 2      \* rows the orders table may hold
MaxTelLen == 7      \* characters of a phone number in the phone harness
MaxLineLen == 4     \* characters of a header line in the parse harness
MaxCallers == 2     \* fetches that call getAccessToken side by side in the token spec
MaxTokenCalls == 3  \* requests the token endpoint receives in the token spec
MaxClock == 3000    \* the last instant (ms) the clock reaches
MaxPages == 2       \* order-list pages the remote API serves to one fetch
MaxLeading == 5     \* lines a file may hold before its header row
MaxQtyLen == 3      \* characters of a quantity cell in the quantity harness

(***************************************************************************)
(* JavaScript values and string functions.                                 *)
(***************************************************************************)
\* null: a value that is no string.
Null == <<"<null>">>

\* Truthiness of a value of type string | null.
Truthy(v) == v # Null /\ v # <<>>

\* a || b
OrElse(a, b) == IF Truthy(a) THEN a ELSE b

\* r[col] || "" : a column the row lacks reads as undefined.
Cell(r, col) == IF col \in DOMAIN r THEN r[col] ELSE <<>>

IsSpace(c) == c \in {" ", "\t"}

RECURSIVE TrimStart(_)
TrimStart(s) == IF s # <<>> /\ IsSpace(Head(s)) THEN TrimStart(Tail(s)) ELSE s

RECURSIVE TrimEnd(_)
TrimEnd(s) ==
  IF s # <<>> /\ IsSpace(s[Len(s)]) THEN TrimEnd(SubSeq(s, 1, Len(s) - 1)) ELSE s

\* String.prototype.trim
Trim(s) == TrimEnd(TrimStart(s))

\* toLowerCase on one character of the model's alphabet.
LowerChar(c) ==
  CASE c = "B" -> "b"
    [] c = "D" -> "d"
    [] c = "J" -> "j"
    [] c = "K" -> "k"
    [] c = "L" -> "l"
    [] OTHER -> c

\* String.prototype.toLowerCase
ToLowerCase(s) == [i \in 1..Len(s) |-> LowerChar(s[i])]

\* Index of the first whitespace character of s, 0 when it has none.
FirstSpace(s) ==
  IF \E i \in 1..Len(s) : IsSpace(s[i])
  THEN CHOOSE i \in 1..Len(s) : IsSpace(s[i]) /\ \A j \in 1..(i - 1) : ~IsSpace(s[j])
  ELSE 0

\* s.split(/\s+/) for a trimmed s.
RECURSIVE SplitSpaces(_)
SplitSpaces(s) ==
  IF FirstSpace(s) = 0 THEN <<s>>
  ELSE <<SubSeq(s, 1, FirstSpace(s) - 1)>>
         \o SplitSpaces(TrimStart(SubSeq(s, FirstSpace(s), Len(s))))

\* parts.join(" ")
RECURSIVE JoinSpace(_)
JoinSpace(parts) ==
  IF parts = <<>> THEN <<>>
  ELSE IF Len(parts) = 1 THEN parts[1]
  ELSE parts[1] \o <<" ">> \o JoinSpace(Tail(parts))

\* s.endsWith(suffix)
EndsWith(s, suffix) ==
  /\ Len(suffix) <= Len(s)
  /\ SubSeq(s, Len(s) - Len(suffix) + 1, Len(s)) = suffix

\* s.slice(-6)
SliceLast6(s) == IF Len(s) <= 6 THEN s ELSE SubSeq(s, Len(s) - 5, Len(s))

\* s.replace(/[\s\-\+]/g, "")
StripPhone(s) == SelectSeq(s, LAMBDA c : ~(IsSpace(c) \/ c = "-" \/ c = "+"))

(***************************************************************************)
(* Field mappers (server/routes.ts).  A canonical order keeps the fields   *)
(* the import, reconciliation and update paths read or write; the other    *)
(* columns (purchaseDate, email, street, contactPerson, postalCode,        *)
(* country, sku, productName, quantity, price, customerType) are copied    *)
(* from the row and never read again by these paths.                       *)
(***************************************************************************)
splitName(fullName) ==
  LET parts == SplitSpaces(Trim(fullName)) IN
  IF Len(parts) = 1 /\ ~Truthy(parts[1]) THEN [firstName |-> <<>>, lastName |-> <<>>]
  ELSE IF Len(parts) = 1 THEN [firstName |-> parts[1], lastName |-> <<>>]
  ELSE [firstName |-> JoinSpace(SubSeq(parts, 1, Len(parts) - 1)),
        lastName |-> parts[Len(parts)]]

mapAmazonRecord(r) ==
  LET recipientName == OrElse(Cell(r, "recipient-name"), Cell(r, "buyer-name"))
      name == splitName(recipientName)
  IN [platform |-> "Amazon",
      orderId |-> Cell(r, "order-id"),
      orderItemId |-> OrElse(Cell(r, "order-item-id"), Cell(r, "order-id")),
      phone |-> Cell(r, "buyer-phone-number"),
      firstName |-> name.firstName,
      lastName |-> name.lastName,
      city |-> Cell(r, "ship-city"),
      shippingCarrier |-> Null,
      trackingNumber |-> Null,
      shippingDate |-> Null,
      status |-> "Offen"]

\* A mapper that marks an eBay row shipped when the file carries a tracking number.
mapEbayRecordShipped(r) ==
  LET orderId == Cell(r, "Bestellnummer")
      lineItemId == OrElse(OrElse(Cell(r, "Verkaufsprotokollnummer"),
                                  Cell(r, "Transaktionsnummer")), orderId)
      name == splitName(OrElse(Cell(r, "Name des Empfängers"), Cell(r, "Name des Käufers")))
  IN [platform |-> "eBay",
      orderId |-> orderId,
      orderItemId |-> IF Truthy(lineItemId) THEN <<"e", "b", "a", "y", "-">> \o lineItemId
                      ELSE <<>>,
      phone |-> Cell(r, "Telefonnummer des Empfängers"),
      firstName |-> name.firstName,
      lastName |-> name.lastName,
      city |-> OrElse(Cell(r, "Versand nach - Ort"), Cell(r, "Wohnort des Käufers")),
      shippingCarrier |-> OrElse(Cell(r, "Versandservice"), Null),
      trackingNumber |-> OrElse(Cell(r, "Sendungsnummer"), Null),
      shippingDate |-> Null,
      status |-> IF Truthy(Cell(r, "Sendungsnummer")) THEN "Versendet" ELSE "Offen"]

mapEbayRecord(r) ==
  LET recipientName == OrElse(Cell(r, "Name des Empfängers"), Cell(r, "Name des Käufers"))
      name == splitName(recipientName)
      orderId == Cell(r, "Bestellnummer")
      salesRecordId == Cell(r, "Verkaufsprotokollnummer")
      transactionId == Cell(r, "Transaktionsnummer")
      lineItemId == OrElse(OrElse(salesRecordId, transactionId), orderId)
      orderItemId == IF Truthy(lineItemId)
                     THEN <<"e", "b", "a", "y", "-">> \o lineItemId
                     ELSE <<>>
  IN [platform |-> "eBay",
      orderId |-> orderId,
      orderItemId |-> orderItemId,
      phone |-> Cell(r, "Telefonnummer des Empfängers"),
      firstName |-> name.firstName,
      lastName |-> name.lastName,
      city |-> OrElse(Cell(r, "Versand nach - Ort"), Cell(r, "Wohnort des Käufers")),
      shippingCarrier |-> OrElse(Cell(r, "Versandservice"), Null),
      trackingNumber |-> OrElse(Cell(r, "Sendungsnummer"), Null),
      shippingDate |-> Null,
      status |-> "Offen"]

\* The remote variant: order is an AmazonOrder, item an AmazonOrderItem; an
\* optional property that is absent is a field the record lacks.
mapOrderToSchema(order, item) ==
  LET addr == IF "ShippingAddress" \in DOMAIN order THEN order.ShippingAddress
              ELSE [x \in {} |-> <<>>]
      buyer == IF "BuyerInfo" \in DOMAIN order THEN order.BuyerInfo
               ELSE [x \in {} |-> <<>>]
      recipientName == OrElse(Cell(addr, "Name"), Cell(buyer, "BuyerName"))
      name == splitName(recipientName)
  IN [platform |-> "Amazon",
      orderId |-> Cell(order, "AmazonOrderId"),
      orderItemId |-> OrElse(Cell(item, "OrderItemId"), Cell(order, "AmazonOrderId")),
      phone |-> Cell(addr, "Phone"),
      firstName |-> name.firstName,
      lastName |-> name.lastName,
      city |-> Cell(addr, "City"),
      shippingCarrier |-> Null,
      trackingNumber |-> Null,
      shippingDate |-> Null,
      status |-> "Offen"]

(***************************************************************************)
(* The order store (server/storage.ts, DatabaseStorage).                   *)
(***************************************************************************)
OrderFields ==
  {"id", "platform", "orderId", "orderItemId", "phone", "firstName", "lastName",
   "city", "shippingCarrier", "trackingNumber", "shippingDate", "shipper", "status"}

\* db.insert(orders).values(order): the serial key is assigned, a nullable
\* column the value lacks is stored as null.
insertValues(order, id) ==
  [f \in OrderFields |->
     IF f = "id" THEN id
     ELSE IF f \in DOMAIN order THEN order[f]
     ELSE Null]

\* The rows whose order_item_id is orderItemId (the handler takes the first).
getOrderByItemId(db, orderItemId) == {o \in db : o.orderItemId = orderItemId}

\* A store step that overwrites the stored row with the incoming values.
createOrdersStepUpsert(st, order) ==
  IF getOrderByItemId(st.db, order.orderItemId) # {}
  THEN [st EXCEPT
          !.db = {IF o.orderItemId = order.orderItemId THEN insertValues(order, o.id) ELSE o :
                    o \in @},
          !.duplicateIds = Append(@, order.orderItemId)]
  ELSE [st EXCEPT !.db = @ \cup {insertValues(order, st.serial)},
                  !.serial = @ + 1,
                  !.imported = @ + 1]

\* Mutant of createOrdersStep: an identifier already stored is passed over
\* without being reported.
createOrdersStepUnreported(st, order) ==
  IF getOrderByItemId(st.db, order.orderItemId) # {}
  THEN st
  ELSE [st EXCEPT !.db = @ \cup {insertValues(order, st.serial)},
                  !.serial = @ + 1,
                  !.imported = @ + 1]

\* One turn of the loop of createOrders over st = [db, serial, imported, duplicateIds].
createOrdersStep(st, order) ==
  IF getOrderByItemId(st.db, order.orderItemId) # {}
  THEN [st EXCEPT !.duplicateIds = Append(@, order.orderItemId)]
  ELSE [st EXCEPT !.db = @ \cup {insertValues(order, st.serial)},
                  !.serial = @ + 1,
                  !.imported = @ + 1]

\* A store loop for which the first duplicate ends the batch.
RECURSIVE createOrdersLoopStopAtDuplicate(_, _)
createOrdersLoopStopAtDuplicate(st, orderList) ==
  IF orderList = <<>> THEN st
  ELSE IF getOrderByItemId(st.db, Head(orderList).orderItemId) # {}
  THEN [st EXCEPT !.duplicateIds = Append(@, Head(orderList).orderItemId)]
  ELSE createOrdersLoopStopAtDuplicate(
         [st EXCEPT !.db = @ \cup {insertValues(Head(orderList), st.serial)},
                    !.serial = @ + 1,
                    !.imported = @ + 1],
         Tail(orderList))

RECURSIVE createOrdersLoop(_, _)
createOrdersLoop(st, orderList) ==
  IF orderList = <<>> THEN st
  ELSE createOrdersLoop(createOrdersStep(st, Head(orderList)), Tail(orderList))

\* A store whose report counts every candidate it was handed as imported.
createOrdersCountAll(db, serial, orderList) ==
  LET st == createOrdersLoop(
              [db |-> db, serial |-> serial, imported |-> 0, duplicateIds |-> <<>>],
              orderList)
  IN [db |-> st.db,
      serial |-> st.serial,
      result |-> [imported |-> Len(orderList),
                  duplicates |-> Len(st.duplicateIds),
                  duplicateIds |-> st.duplicateIds]]

\* createOrders: the table and the serial afterwards, and the returned report.
createOrders(db, serial, orderList) ==
  LET st == createOrdersLoop(
              [db |-> db, serial |-> serial, imported |-> 0, duplicateIds |-> <<>>],
              orderList)
  IN [db |-> st.db,
      serial |-> st.serial,
      result |-> [imported |-> st.imported,
                  duplicates |-> Len(st.duplicateIds),
                  duplicateIds |-> st.duplicateIds]]

\* The status updateOrder derives from the three effective shipping values.
deriveStatus(carrier, tracking, shipDate) ==
  IF Truthy(carrier) /\ Truthy(tracking) /\ Truthy(shipDate)
  THEN "Versendet"
  ELSE "Offen"

\* An update that stores the status the caller sent instead of deriving it.
updatedRowKeepStatus(current, data) ==
  LET carrier == IF "shippingCarrier" \in DOMAIN data
                 THEN data.shippingCarrier ELSE current.shippingCarrier
      tracking == IF "trackingNumber" \in DOMAIN data
                  THEN data.trackingNumber ELSE current.trackingNumber
      shipDate == IF "shippingDate" \in DOMAIN data
                  THEN data.shippingDate ELSE current.shippingDate
  IN [f \in OrderFields |->
        IF f \in DOMAIN data THEN data[f]
        ELSE IF f = "status" THEN deriveStatus(carrier, tracking, shipDate)
        ELSE current[f]]

\* The row updateOrder writes for current under the partial update data.
updatedRow(current, data) ==
  LET carrier == IF "shippingCarrier" \in DOMAIN data
                 THEN data.shippingCarrier ELSE current.shippingCarrier
      tracking == IF "trackingNumber" \in DOMAIN data
                  THEN data.trackingNumber ELSE current.trackingNumber
      shipDate == IF "shippingDate" \in DOMAIN data
                  THEN data.shippingDate ELSE current.shippingDate
  IN [f \in OrderFields |->
        IF f = "status" THEN deriveStatus(carrier, tracking, shipDate)
        ELSE IF f \in DOMAIN data THEN data[f]
        ELSE current[f]]

\* Mutant of updateOrder: a null in the partial update counts as an absent field.
updateOrderSkipsNull(db, id, data) ==
  LET given == [f \in {g \in DOMAIN data : g = "status" \/ data[g] # Null} |-> data[f]]
  IN {IF o.id = id THEN updatedRow(o, given) ELSE o : o \in db}

\* updateOrder(id, data): the table afterwards; a missing id changes nothing.
updateOrder(db, id, data) ==
  {IF o.id = id THEN updatedRow(o, data) ELSE o : o \in db}

(***************************************************************************)
(* POST /api/orders/import (server/routes.ts).  An upload is what multer   *)
(* and csv-parse make of the request: whether a file came, whether the     *)
(* tokenizer threw, and the row maps it returned.                          *)
(***************************************************************************)
\* A delimiter choice that counts semicolons and commas before it looks for a tab.
detectDelimiterCountsFirst(firstLine) ==
  LET count(c) == Len(SelectSeq(firstLine, LAMBDA x : x = c)) IN
  IF count(";") > count(",") THEN ";"
  ELSE IF count(",") > 0 THEN ","
  ELSE IF \E i \in 1..Len(firstLine) : firstLine[i] = "\t" THEN "\t"
  ELSE ","

detectDelimiter(firstLine) ==
  LET semicolonCount == Len(SelectSeq(firstLine, LAMBDA x : x = ";"))
      commaCount == Len(SelectSeq(firstLine, LAMBDA x : x = ","))
  IN IF \E i \in 1..Len(firstLine) : firstLine[i] = "\t" THEN "\t"
     ELSE IF semicolonCount > commaCount THEN ";"
     ELSE ","

\* The test of parseFile's header search on one line: line && !line.match(/^[;,\t\s"]*$/)
\* with line = lines[i].trim().
IsHeaderCandidate(rawLine) ==
  LET line == Trim(rawLine) IN
  /\ line # <<>>
  /\ \E i \in 1..Len(line) : line[i] \notin {";", ",", "\t", " ", "\""}

\* headerLineIndex, 1-based: the first candidate among the first 5 lines, else the first line.
headerLineIndex(lines) ==
  LET limit == IF Len(lines) < 5 THEN Len(lines) ELSE 5
      found == {i \in 1..limit : IsHeaderCandidate(lines[i])}
  IN IF found = {} THEN 1 ELSE CHOOSE i \in found : \A j \in found : i <= j

\* The delimiter parseFile hands to the tokenizer for the lines of a file.
parseFileDelimiter(lines) == detectDelimiter(lines[headerLineIndex(lines)])

\* The cells parseFile counts: v && v.trim()
nonEmptyCells(r) == {k \in DOMAIN r : Truthy(r[k]) /\ Truthy(Trim(r[k]))}

\* parseFile's filter: a row with at most 3 non-empty cells is dropped.
filterRecords(records) == SelectSeq(records, LAMBDA r : Cardinality(nonEmptyCells(r)) > 3)

\* The detection fragments the lower-cased column name includes.
KeyFragments(key) ==
  CASE key = "order-item-id" -> {"order-item-id"}
    [] key = "purchase-date" -> {"purchase-date"}
    [] key = "buyer-email" -> {"buyer-email"}
    [] key = "Bestellnummer" -> {"bestellnummer"}
    [] key = "Verkaufsprotokollnummer" -> {"verkaufsprotokollnummer"}
    [] key = "Name des Käufers" -> {"käufer"}
    [] key = "Wohnort des Käufers" -> {"käufer"}
    [] key = "Name des Empfängers" -> {"empfänger"}
    [] key = "Telefonnummer des Empfängers" -> {"empfänger"}
    [] key = "Angebotstitel" -> {"angebotstitel"}
    [] key = "Artikelnummer" -> {"artikelnummer"}
    [] OTHER -> {}

\* headerStr.includes(fragment), headerStr the keys joined by "|" and lower-cased.
HeaderIncludes(headers, fragment) == \E k \in headers : fragment \in KeyFragments(k)

detectPlatform(headers) ==
  IF \/ HeaderIncludes(headers, "order-item-id")
     \/ HeaderIncludes(headers, "purchase-date")
     \/ HeaderIncludes(headers, "buyer-email")
  THEN "Amazon"
  ELSE IF \/ HeaderIncludes(headers, "bestellnummer")
          \/ HeaderIncludes(headers, "verkaufsprotokollnummer")
          \/ HeaderIncludes(headers, "käufer")
          \/ HeaderIncludes(headers, "empfänger")
          \/ HeaderIncludes(headers, "angebotstitel")
          \/ HeaderIncludes(headers, "artikelnummer")
  THEN "eBay"
  ELSE "Amazon"

EbayMarker == <<"e", "b", "a", "y", "-">>

mapRecord(platform, r) == IF platform = "eBay" THEN mapEbayRecord(r) ELSE mapAmazonRecord(r)

\* A row loop in which a later row of the same id replaces the earlier one.
dedupStepLastWins(acc, mapped) ==
  IF ~Truthy(mapped.orderItemId) \/ mapped.orderItemId = EbayMarker THEN acc
  ELSE IF mapped.orderItemId \in acc.seenInFile
  THEN [acc EXCEPT !.orderList =
          [i \in 1..Len(@) |->
             IF @[i].orderItemId = mapped.orderItemId THEN mapped ELSE @[i]]]
  ELSE [seenInFile |-> acc.seenInFile \cup {mapped.orderItemId},
        orderList |-> Append(acc.orderList, mapped)]

\* One turn of the row loop over acc = [seenInFile, orderList].
dedupStep(acc, mapped) ==
  IF ~Truthy(mapped.orderItemId) \/ mapped.orderItemId = EbayMarker THEN acc
  ELSE IF mapped.orderItemId \in acc.seenInFile THEN acc
  ELSE [seenInFile |-> acc.seenInFile \cup {mapped.orderItemId},
        orderList |-> Append(acc.orderList, mapped)]

RECURSIVE dedupLoop(_, _)
dedupLoop(acc, candidates) ==
  IF candidates = <<>> THEN acc
  ELSE dedupLoop(dedupStep(acc, Head(candidates)), Tail(candidates))

\* Mutant of dedupBatch: one row without an identifier fails the whole batch.
dedupBatchAllOrNothing(candidates) ==
  IF \E i \in 1..Len(candidates) :
       ~Truthy(candidates[i].orderItemId) \/ candidates[i].orderItemId = EbayMarker
  THEN <<>>
  ELSE dedupLoop([seenInFile |-> {}, orderList |-> <<>>], candidates).orderList

\* The orderList the handler hands to createOrders for the mapped candidates.
dedupBatch(candidates) ==
  dedupLoop([seenInFile |-> {}, orderList |-> <<>>], candidates).orderList

\* The mapped candidates of the parsed records, in file order.
mapRecords(records) ==
  LET platform == detectPlatform(DOMAIN records[1])
  IN [i \in 1..Len(records) |-> mapRecord(platform, records[i])]

\* Mutant of importFile: a file without records is imported as an empty list.
importFileEmptyReport(db, serial, upload) ==
  LET unchanged(status, message) ==
        [db |-> db, serial |-> serial,
         response |-> [op |-> "import", status |-> status, body |-> [message |-> message]]]
  IN IF ~upload.hasFile THEN unchanged(400, "Keine Datei hochgeladen")
     ELSE IF upload.parseThrows THEN unchanged(400, "Datei konnte nicht gelesen werden. Bitte prüfe das Format.")
     ELSE LET records == filterRecords(upload.rows)
              orderList == IF Len(records) = 0 THEN <<>> ELSE dedupBatch(mapRecords(records))
              created == createOrders(db, serial, orderList)
          IN [db |-> created.db, serial |-> created.serial,
              response |-> [op |-> "import", status |-> 200, body |-> created.result]]

\* The handler: the table, the serial and the response it leaves.
importFile(db, serial, upload) ==
  LET unchanged(status, message) ==
        [db |-> db, serial |-> serial,
         response |-> [op |-> "import", status |-> status, body |-> [message |-> message]]]
  IN IF ~upload.hasFile THEN unchanged(400, "Keine Datei hochgeladen")
     ELSE IF upload.parseThrows THEN unchanged(400, "Datei konnte nicht gelesen werden. Bitte prüfe das Format.")
     ELSE LET records == filterRecords(upload.rows) IN
       IF Len(records) = 0 THEN unchanged(400, "Keine Datensätze in der Datei gefunden")
       ELSE LET created == createOrders(db, serial, dedupBatch(mapRecords(records)))
            IN [db |-> created.db, serial |-> created.serial,
                response |-> [op |-> "import", status |-> 200, body |-> created.result]]

(***************************************************************************)
(* POST /api/orders/fetch-amazon.  fetchAmazonOrders maps every item of    *)
(* every fetched order and keeps the records with an orderItemId; the      *)
(* route that stores them is not among the sources: it is modelled from    *)
(* the specification (the same orchestrator path as a file import).        *)
(***************************************************************************)
\* allMappedOrders of fetchAmazonOrders for the fetched (order, item) pairs.
mapFetched(pairs) ==
  LET mapped == [i \in 1..Len(pairs) |-> mapOrderToSchema(pairs[i].order, pairs[i].item)]
  IN SelectSeq(mapped, LAMBDA m : Truthy(m.orderItemId))

importFetched(db, serial, pairs) ==
  LET created == createOrders(db, serial, dedupBatch(mapFetched(pairs)))
  IN [db |-> created.db, serial |-> created.serial,
      response |-> [op |-> "fetch-amazon", status |-> 200, body |-> created.result]]

(***************************************************************************)
(* PATCH /api/orders/:id                                                   *)
(***************************************************************************)
patchOrder(db, id, body) ==
  IF \E o \in db : o.id = id
  THEN [db |-> updateOrder(db, id, body),
        response |-> [op |-> "patch", status |-> 200,
                      body |-> CHOOSE o \in updateOrder(db, id, body) : o.id = id]]
  ELSE [db |-> db,
        response |-> [op |-> "patch", status |-> 404,
                      body |-> [message |-> "Bestellung nicht gefunden"]]]

(***************************************************************************)
(* POST /api/orders/import-shipping (server/routes.ts).                    *)
(***************************************************************************)
\* new Date().toISOString().split("T")[0] on the day of the import.
Today == <<"2", "6", "-", "1", "1">>

LogoiX == <<"L", "o", "g", "o", "i", "X">>

\* storage.getOrdersByOrderId and storage.getAllOrders are not among the
\* sources: the exact orderId lookup and the full order set of the specification.
getOrdersByOrderId(db, orderId) == {o \in db : o.orderId = orderId}

getAllOrders(db) == db

\* The manifest row's hints as the row loop computes them.
csvNameOf(r) == ToLowerCase(Trim(Cell(r, "Name")))

csvPhoneOf(r) == StripPhone(Trim(Cell(r, "Tel")))

csvOrtOf(r) == ToLowerCase(Trim(Cell(r, "Ort")))

nameMatch(csvName, o) ==
  Truthy(csvName) /\ ToLowerCase(o.firstName \o <<" ">> \o o.lastName) = csvName

\* A phone predicate without the minimum of six characters.
phoneMatchNoMinimum(csvPhone, phone) ==
  LET orderPhone == StripPhone(OrElse(phone, <<>>)) IN
  /\ Truthy(csvPhone)
  /\ Truthy(orderPhone)
  /\ EndsWith(orderPhone, SliceLast6(csvPhone))

\* csvPhone the stripped manifest phone, phone the order's phone column.
phoneMatch(csvPhone, phone) ==
  LET orderPhone == StripPhone(OrElse(phone, <<>>)) IN
  /\ Truthy(csvPhone)
  /\ Truthy(orderPhone)
  /\ EndsWith(orderPhone, SliceLast6(csvPhone))
  /\ Len(SliceLast6(csvPhone)) >= 6

cityMatch(csvOrt, o) == Truthy(csvOrt) /\ ToLowerCase(OrElse(o.city, <<>>)) = csvOrt

\* A filter for which one matching predicate is enough.
isCandidateAnyOne(o, csvName, csvPhone, csvOrt) ==
  \/ nameMatch(csvName, o)
  \/ phoneMatch(csvPhone, o.phone)
  \/ cityMatch(csvOrt, o)

\* The filter of allOrders: at least two of the three predicates.
isCandidate(o, csvName, csvPhone, csvOrt) ==
  \/ nameMatch(csvName, o) /\ phoneMatch(csvPhone, o.phone)
  \/ nameMatch(csvName, o) /\ cityMatch(csvOrt, o)
  \/ phoneMatch(csvPhone, o.phone) /\ cityMatch(csvOrt, o)

candidatesOf(allOrders, r) ==
  {o \in allOrders : isCandidate(o, csvNameOf(r), csvPhoneOf(r), csvOrtOf(r))}

\* `${referenz} → ${orderId} (${firstName} ${lastName})`
fuzzyText(referenz, o) ==
  referenz \o <<" ", "→", " ">> \o o.orderId \o <<" ", "(">> \o o.firstName
    \o <<" ">> \o o.lastName \o <<")">>

\* Mutant of shippingUpdate: an empty carrier or tracking cell is left out of
\* the update, so that the stored value stays.
shippingUpdateKeepsEmpty(r) ==
  LET carrier == Trim(Cell(r, "Lieferant"))
      trackingNum == Trim(Cell(r, "Paketnummer Lieferant"))
  IN (IF Truthy(carrier) THEN [shippingCarrier |-> carrier] ELSE <<>>)
     @@ (IF Truthy(trackingNum) THEN [trackingNumber |-> trackingNum] ELSE <<>>)
     @@ [shippingDate |-> Today, shipper |-> LogoiX]

\* The partial update a resolved row writes.
shippingUpdate(r) ==
  [shippingCarrier |-> OrElse(Trim(Cell(r, "Lieferant")), Null),
   trackingNumber |-> OrElse(Trim(Cell(r, "Paketnummer Lieferant")), Null),
   shippingDate |-> Today,
   shipper |-> LogoiX]

\* Mutant of rowCandidates: the fuzzy search runs whatever the exact lookup found.
rowCandidatesAlways(st, r) ==
  IF Truthy(csvNameOf(r)) \/ Truthy(csvPhoneOf(r))
  THEN candidatesOf(st.allOrders, r)
  ELSE {}

\* The fuzzy candidates of a row: searched only when the exact lookup finds
\* nothing and the row has a name or a phone.
rowCandidates(st, r) ==
  IF /\ getOrdersByOrderId(st.db, Trim(Cell(r, "Referenz"))) = {}
     /\ (Truthy(csvNameOf(r)) \/ Truthy(csvPhoneOf(r)))
  THEN candidatesOf(st.allOrders, r)
  ELSE {}

\* matchingOrders after the fuzzy branch: the single candidate, else the exact matches.
rowMatchingOrders(st, r) ==
  IF Cardinality(rowCandidates(st, r)) = 1
  THEN rowCandidates(st, r)
  ELSE getOrdersByOrderId(st.db, Trim(Cell(r, "Referenz")))

\* A row loop that writes the shipment to every fuzzy candidate it found.
processRowEveryCandidate(st, r) ==
  LET referenz == Trim(Cell(r, "Referenz"))
      candidates == rowCandidates(st, r)
      matchingOrders == IF candidates # {} THEN candidates
                        ELSE getOrdersByOrderId(st.db, referenz)
      ids == {o.id : o \in matchingOrders}
  IN IF ~Truthy(referenz) THEN st
     ELSE IF matchingOrders = {}
     THEN [st EXCEPT !.notFound = Append(@, referenz)]
     ELSE [st EXCEPT
             !.fuzzyMatched =
                IF candidates # {}
                THEN Append(@, fuzzyText(referenz, CHOOSE o \in candidates : TRUE))
                ELSE @,
             !.db = {IF o.id \in ids THEN updatedRow(o, shippingUpdate(r)) ELSE o : o \in @},
             !.updated = @ + Cardinality(matchingOrders)]

\* One turn of the row loop over
\* st = [db, allOrders, updated, notFound, fuzzyMatched, ambiguous].
processRow(st, r) ==
  LET referenz == Trim(Cell(r, "Referenz"))
      candidates == rowCandidates(st, r)
      matchingOrders == rowMatchingOrders(st, r)
      ids == {o.id : o \in matchingOrders}
  IN IF ~Truthy(referenz) THEN st
     ELSE IF Cardinality(candidates) > 1
     THEN [st EXCEPT !.ambiguous = Append(@, referenz)]
     ELSE IF matchingOrders = {}
     THEN [st EXCEPT !.notFound = Append(@, referenz)]
     ELSE [st EXCEPT
             !.fuzzyMatched =
                IF Cardinality(candidates) = 1
                THEN Append(@, fuzzyText(referenz, CHOOSE o \in candidates : TRUE))
                ELSE @,
             !.db = {IF o.id \in ids THEN updatedRow(o, shippingUpdate(r)) ELSE o : o \in @},
             !.updated = @ + Cardinality(matchingOrders)]

RECURSIVE processRows(_, _)
processRows(st, records) ==
  IF records = <<>> THEN st
  ELSE processRows(processRow(st, Head(records)), Tail(records))

\* The handler: the table and the response it leaves.
importShipping(db, upload) ==
  LET unchanged(status, message) ==
        [db |-> db,
         response |-> [op |-> "import-shipping", status |-> status,
                       body |-> [message |-> message]]]
  IN IF ~upload.hasFile THEN unchanged(400, "Keine Datei hochgeladen")
     ELSE IF upload.parseThrows THEN unchanged(400, "Datei konnte nicht gelesen werden. Bitte prüfe das Format.")
     ELSE LET records == filterRecords(upload.rows) IN
       IF Len(records) = 0 THEN unchanged(400, "Keine Datensätze in der Datei gefunden")
       ELSE LET st == processRows(
                        [db |-> db, allOrders |-> getAllOrders(db), updated |-> 0,
                         notFound |-> <<>>, fuzzyMatched |-> <<>>, ambiguous |-> <<>>],
                        records)
            IN [db |-> st.db,
                response |-> [op |-> "import-shipping", status |-> 200,
                              body |-> [updated |-> st.updated,
                                        notFound |-> st.notFound,
                                        fuzzyMatched |-> st.fuzzyMatched,
                                        ambiguous |-> st.ambiguous]]]

(***************************************************************************)
(* The requests the model sends.                                           *)
(***************************************************************************)
O1 == <<"o", "1">>
O2 == <<"o", "2">>
X9 == <<"x", "9">>
I1 == <<"i", "1">>
I2 == <<"i", "2">>
JD == <<"J", " ", "D">>
KL == <<"K", " ", "L">>
TelA == <<"1", "2", "3", "4", "5", "6">>
TelB == <<"9", "8", "7", "6", "5", "4">>
Bo == <<"B", "o">>
Ke == <<"K", "e">>
DE == <<"D", "E">>
DHL == <<"D", "H", "L">>
T1 == <<"t", "1">>

AmazonRow(orderId, itemId, name, tel, city, country) ==
  [k \in {"order-id", "order-item-id", "recipient-name", "buyer-phone-number",
          "ship-city", "ship-country", "sku"} |->
     CASE k = "order-id" -> orderId
       [] k = "order-item-id" -> itemId
       [] k = "recipient-name" -> name
       [] k = "buyer-phone-number" -> tel
       [] k = "ship-city" -> city
       [] k = "ship-country" -> country
       [] OTHER -> <<"s">>]

A1 == AmazonRow(O1, I1, JD, TelA, Bo, DE)
A2 == AmazonRow(O1, I2, JD, TelA, Bo, DE)           \* a second item of order o1
A3 == AmazonRow(O2, I1, KL, TelB, Bo, DE)           \* the item id of A1 again
ANoKey == AmazonRow(<<>>, <<>>, KL, TelB, Ke, DE)
AMarker == AmazonRow(O2, EbayMarker, KL, TelB, Bo, DE)  \* the bare marker as an id
ASparse == AmazonRow(O2, I2, <<>>, <<>>, <<>>, <<>>)    \* 3 non-empty cells

EbayRow(orderId, salesRecordId, transactionId, service, tracking) ==
  [k \in {"Bestellnummer", "Verkaufsprotokollnummer", "Transaktionsnummer",
          "Name des Empfängers", "Telefonnummer des Empfängers",
          "Versand nach - Ort", "Versandservice", "Sendungsnummer",
          "Angebotstitel"} |->
     CASE k = "Bestellnummer" -> orderId
       [] k = "Verkaufsprotokollnummer" -> salesRecordId
       [] k = "Transaktionsnummer" -> transactionId
       [] k = "Name des Empfängers" -> KL
       [] k = "Telefonnummer des Empfängers" -> TelB
       [] k = "Versand nach - Ort" -> Ke
       [] k = "Versandservice" -> service
       [] k = "Sendungsnummer" -> tracking
       [] OTHER -> <<"a">>]

E1 == EbayRow(O2, <<"7">>, <<>>, DHL, T1)
E2 == EbayRow(<<>>, <<>>, <<"7">>, <<>>, <<>>)      \* ebay-7 again, by transaction number
ENoKey == EbayRow(<<>>, <<>>, <<>>, <<>>, <<>>)     \* no line-item identifier

Upload(rows) == [hasFile |-> TRUE, parseThrows |-> FALSE, rows |-> rows]

NoFile == [hasFile |-> FALSE, parseThrows |-> FALSE, rows |-> <<>>]

Unreadable == [hasFile |-> TRUE, parseThrows |-> TRUE, rows |-> <<>>]

\* The row lists of the uploaded order files.
OrderFileRows ==
  {<<>>, <<A1>>, <<A2>>, <<A1, A2>>, <<A1, A3>>, <<A3, A1>>, <<A1, A2, A1>>,
   <<ANoKey, A2>>, <<AMarker, A1>>, <<ASparse, A1>>, <<ASparse>>,
   <<E1>>, <<E1, E2>>, <<ENoKey, E1>>}

OrderFiles == {NoFile, Unreadable} \cup {Upload(rows) : rows \in OrderFileRows}

\* Fetched (order, item) pairs.
F1 == [order |-> [AmazonOrderId |-> O1,
                  ShippingAddress |-> [Name |-> JD, City |-> Bo, Phone |-> TelA]],
       item |-> [OrderItemId |-> I2]]
\* No address (the restricted data token failed) and no item id: the id falls
\* back to the order id, here the item id of F1.
F2 == [order |-> [AmazonOrderId |-> I2], item |-> [SellerSKU |-> <<"s">>]]
FNoKey == [order |-> [PurchaseDate |-> <<"d">>], item |-> [SellerSKU |-> <<"s">>]]

FetchedBatches == {<<>>, <<F1>>, <<F1, F2>>, <<FNoKey, F1, F1>>}

ManifestRow(referenz, carrier, tracking, name, tel, ort) ==
  [k \in {"Referenz", "Lieferant", "Paketnummer Lieferant", "Name", "Tel", "Ort",
          "Land"} |->
     CASE k = "Referenz" -> referenz
       [] k = "Lieferant" -> carrier
       [] k = "Paketnummer Lieferant" -> tracking
       [] k = "Name" -> name
       [] k = "Tel" -> tel
       [] k = "Ort" -> ort
       [] OTHER -> DE]

MExact == ManifestRow(O1, DHL, T1, <<>>, <<>>, <<>>)
MNoCarrier == ManifestRow(O1, <<>>, T1, <<"j", " ", "d">>, <<>>, <<"b", "o">>)
MNameCity == ManifestRow(X9, DHL, T1, <<"J", " ", "d", " ">>, <<>>, Bo)
MCityOnly == ManifestRow(X9, DHL, T1, <<"z">>, <<>>, <<"b", "o">>)
MPhoneCity ==
  ManifestRow(X9, DHL, T1, <<>>, <<"+", "9", "-", "9", "8", "7", " ", "6", "5", "4">>, Bo)
MShortPhone == ManifestRow(X9, DHL, T1, <<>>, <<"8", "7", "6", "5", "4">>, Bo)
MNoRef == ManifestRow(<<>>, DHL, T1, <<"j", " ", "d">>, <<>>, Bo)

\* The row lists of the uploaded shipping manifests.
ManifestFileRows ==
  {<<>>, <<MExact>>, <<MExact, MExact>>, <<MNoCarrier>>, <<MNameCity>>,
   <<MCityOnly>>, <<MPhoneCity>>, <<MShortPhone>>, <<MNoRef, MExact>>,
   <<MNameCity, MPhoneCity>>}

Manifests == {NoFile, Unreadable} \cup {Upload(rows) : rows \in ManifestFileRows}

PatchBodies ==
  {[shippingCarrier |-> DHL, trackingNumber |-> T1, shippingDate |-> Today,
    shipper |-> LogoiX],
   [trackingNumber |-> <<>>, status |-> "Versendet"]}

\* The ids PATCH is sent for: the first order, and an id no order has.
PatchIds == {1, MaxOrders + 1}

(***************************************************************************)
(* The store under its four writers.                                       *)
(***************************************************************************)
NotMapped == [platform |-> "none"]

\* No upload is being parsed in the parse harness.
ParseIdle == delimIn = <<>> /\ delimOut = "none"

\* The remote client at process start: nothing configured, cached or running.
ClientIdle ==
  /\ secrets = {}
  /\ cachedAccessToken = Null /\ tokenExpiresAt = 0
  /\ now = 0 /\ tokenCalls = 0
  /\ callers = <<>>
  /\ fetch = [pc |-> "idle"]
  /\ retry = [pc |-> "idle"]

HarnessIdle ==
  /\ mapIn = [kind |-> "none"] /\ mapOut = NotMapped
  /\ csvTel = <<>> /\ orderTel = <<>> /\ telResult = "none"
  /\ ParseIdle /\ ClientIdle

StoreIdle ==
  /\ orders = {}
  /\ nextId = 1
  /\ response = [op |-> "none", status |-> 0, body |-> [message |-> ""]]

Init == StoreIdle /\ HarnessIdle

ImportFile ==
  \E upload \in OrderFiles :
    LET r == importFile(orders, nextId, upload) IN
    /\ Cardinality(r.db) <= MaxOrders
    /\ orders' = r.db
    /\ nextId' = r.serial
    /\ response' = r.response
    /\ UNCHANGED <<mapIn, mapOut, csvTel, orderTel, telResult, parseVars, clientVars>>

FetchAmazon ==
  \E pairs \in FetchedBatches :
    LET r == importFetched(orders, nextId, pairs) IN
    /\ Cardinality(r.db) <= MaxOrders
    /\ orders' = r.db
    /\ nextId' = r.serial
    /\ response' = r.response
    /\ UNCHANGED <<mapIn, mapOut, csvTel, orderTel, telResult, parseVars, clientVars>>

ImportShipping ==
  \E upload \in Manifests :
    LET r == importShipping(orders, upload) IN
    /\ orders' = r.db
    /\ response' = r.response
    /\ UNCHANGED <<nextId, mapIn, mapOut, csvTel, orderTel, telResult, parseVars, clientVars>>

PatchOrder ==
  \E id \in PatchIds, body \in PatchBodies :
    LET r == patchOrder(orders, id, body) IN
    /\ orders' = r.db
    /\ response' = r.response
    /\ UNCHANGED <<nextId, mapIn, mapOut, csvTel, orderTel, telResult, parseVars, clientVars>>

Next == ImportFile \/ FetchAmazon \/ ImportShipping \/ PatchOrder

Spec == Init /\ [][Next]_vars

\* The store under the file import and the two paths that update shipping
\* fields (manifest reconciliation and PATCH), without the remote fetch.
NextShipping == ImportFile \/ ImportShipping \/ PatchOrder

SpecShipping == Init /\ [][NextShipping]_vars

(***************************************************************************)
(* The remote order client (server/amazon-sp-api.ts): the access token.    *)
(* getAccessToken runs up to its await of the token endpoint in one step   *)
(* and from the endpoint's answer to its return in another; calls of       *)
(* different fetches interleave at that await.                             *)
(***************************************************************************)
SecretNames == {"AMAZON_SP_REFRESH_TOKEN", "AMAZON_SP_CLIENT_ID", "AMAZON_SP_CLIENT_SECRET"}

ConfigError == "Amazon API Zugangsdaten fehlen"

LoginError == "Amazon Login-Fehler"

NoTokenError == "Amazon Login hat kein Access Token zurückgegeben"

DigitChars == <<"0", "1", "2", "3", "4", "5", "6", "7", "8", "9">>

\* The access token the endpoint issues for its k-th request.
Tok(k) == <<"t", DigitChars[k + 1]>>

\* invalidateAccessToken: the cache afterwards.
invalidateAccessToken == [token |-> Null, expiresAt |-> 0]

\* A first part that tests the expiry the wrong way round.
getAccessTokenBeginInverted(cache, time, env, forceRefresh) ==
  IF ~forceRefresh /\ Truthy(cache.token) /\ time > cache.expiresAt
  THEN [cache |-> cache, outcome |-> "cached", token |-> cache.token, error |-> ""]
  ELSE IF env # SecretNames
  THEN [cache |-> invalidateAccessToken, outcome |-> "throw", token |-> Null,
        error |-> ConfigError]
  ELSE [cache |-> invalidateAccessToken, outcome |-> "request", token |-> Null, error |-> ""]

\* Mutant of getAccessTokenBegin: the cache is cleared only when the secrets
\* are missing, not before the token request.
getAccessTokenBeginKeepsCache(cache, time, env, forceRefresh) ==
  IF ~forceRefresh /\ Truthy(cache.token) /\ time < cache.expiresAt
  THEN [cache |-> cache, outcome |-> "cached", token |-> cache.token, error |-> ""]
  ELSE IF env # SecretNames
  THEN [cache |-> invalidateAccessToken, outcome |-> "throw", token |-> Null,
        error |-> ConfigError]
  ELSE [cache |-> cache, outcome |-> "request", token |-> Null, error |-> ""]

\* getAccessToken(forceRefresh) up to the await of the token endpoint, for
\* the cache [token, expiresAt], Date.now() and the secrets that are set.
getAccessTokenBegin(cache, time, env, forceRefresh) ==
  IF ~forceRefresh /\ Truthy(cache.token) /\ time < cache.expiresAt
  THEN [cache |-> cache, outcome |-> "cached", token |-> cache.token, error |-> ""]
  ELSE IF env # SecretNames
  THEN [cache |-> invalidateAccessToken, outcome |-> "throw", token |-> Null,
        error |-> ConfigError]
  ELSE [cache |-> invalidateAccessToken, outcome |-> "request", token |-> Null, error |-> ""]

\* getAccessToken from the endpoint's answer res = [ok, access_token, expires_in]
\* to its return; time is Date.now() at that moment.
getAccessTokenEnd(cache, time, res) ==
  IF ~res.ok
  THEN [cache |-> cache, outcome |-> "throw", token |-> Null, error |-> LoginError]
  ELSE IF ~Truthy(res.access_token)
  THEN [cache |-> cache, outcome |-> "throw", token |-> Null, error |-> NoTokenError]
  ELSE [cache |-> [token |-> res.access_token,
                   expiresAt |-> time + (res.expires_in - 60) * 1000],
        outcome |-> "return", token |-> res.access_token, error |-> ""]

\* What the token endpoint may answer to its k-th request.
TokenResponses(k) ==
  {[ok |-> FALSE, access_token |-> Null, expires_in |-> 0],
   [ok |-> TRUE, access_token |-> Null, expires_in |-> 0]}
    \cup {[ok |-> TRUE, access_token |-> Tok(k), expires_in |-> e] : e \in {61, 62}}

(***************************************************************************)
(* getAccessToken called by fetches that run side by side (SpecToken).     *)
(***************************************************************************)
Callers == 1..MaxCallers

NotCalling ==
  [pc |-> "idle", force |-> FALSE, req |-> 0, outcome |-> "none", token |-> Null,
   error |-> "", expiresIn |-> 0]

InitToken ==
  /\ StoreIdle /\ ParseIdle
  /\ mapIn = [kind |-> "none"] /\ mapOut = NotMapped
  /\ csvTel = <<>> /\ orderTel = <<>> /\ telResult = "none"
  /\ secrets \in {SecretNames, SecretNames \ {"AMAZON_SP_CLIENT_SECRET"}}
  /\ cachedAccessToken = Null /\ tokenExpiresAt = 0
  /\ now = 0 /\ tokenCalls = 0
  /\ callers = [p \in Callers |-> NotCalling]
  /\ fetch = [pc |-> "idle"]
  /\ retry = [pc |-> "idle"]

\* What the token spec leaves alone.
OutsideToken ==
  <<orders, nextId, response, mapIn, mapOut, csvTel, orderTel, telResult, parseVars,
    fetch, retry>>

\* A fetch calls getAccessToken and runs to the await or to the return.
CallGetAccessToken ==
  \E p \in Callers, forceRefresh \in BOOLEAN :
    LET r == getAccessTokenBegin([token |-> cachedAccessToken, expiresAt |-> tokenExpiresAt],
                                 now, secrets, forceRefresh)
    IN /\ callers[p].pc = "idle"
       /\ r.outcome = "request" => tokenCalls < MaxTokenCalls
       /\ cachedAccessToken' = r.cache.token
       /\ tokenExpiresAt' = r.cache.expiresAt
       /\ tokenCalls' = IF r.outcome = "request" THEN tokenCalls + 1 ELSE tokenCalls
       /\ callers' = [callers EXCEPT ![p] =
                        [pc |-> IF r.outcome = "request" THEN "awaitToken" ELSE "done",
                         force |-> forceRefresh,
                         req |-> IF r.outcome = "request" THEN tokenCalls + 1 ELSE 0,
                         outcome |-> r.outcome, token |-> r.token, error |-> r.error,
                         expiresIn |-> 0]]
       /\ UNCHANGED <<secrets, now, OutsideToken>>

\* The token endpoint answers and the call runs to its return.
TokenEndpointAnswers ==
  \E p \in Callers : \E res \in TokenResponses(callers[p].req) :
    LET r == getAccessTokenEnd([token |-> cachedAccessToken, expiresAt |-> tokenExpiresAt],
                               now, res)
    IN /\ callers[p].pc = "awaitToken"
       /\ cachedAccessToken' = r.cache.token
       /\ tokenExpiresAt' = r.cache.expiresAt
       /\ callers' = [callers EXCEPT ![p] =
                        [@ EXCEPT !.pc = "done", !.outcome = r.outcome, !.token = r.token,
                                  !.error = r.error, !.expiresIn = res.expires_in]]
       /\ UNCHANGED <<secrets, now, tokenCalls, OutsideToken>>

\* The fetch goes on; its next getAccessToken call is a new call.
CallReturned ==
  \E p \in Callers :
    /\ callers[p].pc = "done"
    /\ callers' = [callers EXCEPT ![p] = NotCalling]
    /\ UNCHANGED <<secrets, cachedAccessToken, tokenExpiresAt, now, tokenCalls, OutsideToken>>

\* One second passes.
Tick ==
  /\ now + 1000 <= MaxClock
  /\ now' = now + 1000
  /\ UNCHANGED <<secrets, cachedAccessToken, tokenExpiresAt, tokenCalls, callers, OutsideToken>>

NextToken == CallGetAccessToken \/ TokenEndpointAnswers \/ CallReturned \/ Tick

SpecToken == InitToken /\ [][NextToken]_vars

\* getAccessToken called one call at a time: a call begins only when none is
\* waiting for the token endpoint.
CallGetAccessTokenAlone ==
  /\ \A q \in Callers : callers[q].pc # "awaitToken"
  /\ CallGetAccessToken

NextTokenSeq == CallGetAccessTokenAlone \/ TokenEndpointAnswers \/ CallReturned \/ Tick

SpecTokenSeq == InitToken /\ [][NextTokenSeq]_vars

(***************************************************************************)
(* The remote order client: fetchWithRetry.                                *)
(***************************************************************************)
\* maxRetries = 3, the default every call site uses.
DefaultMaxRetries == 3

RateLimitError == "Rate limit: Zu viele Anfragen an die Amazon API"

\* A wait that grows by the base delay per attempt instead of doubling.
waitTimeLinear(attempt) == (attempt + 1) * 2000

\* waitTime = Math.pow(2, attempt) * 2000
waitTime(attempt) == (2 ^ attempt) * 2000

\* The run of fetchWithRetry against a server that answers the requests of
\* this call with the given statuses, in order: what it returns or throws,
\* the requests it sent and the time it slept.
RECURSIVE fetchWithRetryFrom(_, _, _)
fetchWithRetryFrom(attempt, statuses, slept) ==
  IF attempt >= DefaultMaxRetries
  THEN [outcome |-> "throw", status |-> 0, error |-> RateLimitError,
        requests |-> attempt, slept |-> slept]
  ELSE IF Head(statuses) = 429
  THEN fetchWithRetryFrom(attempt + 1, Tail(statuses), slept + waitTime(attempt))
  ELSE [outcome |-> "return", status |-> Head(statuses), error |-> "",
        requests |-> attempt + 1, slept |-> slept]

\* Mutant of fetchWithRetry: after the last attempt the 429 response is
\* returned instead of the rate-limit error being thrown.
fetchWithRetryReturnsLast(statuses) ==
  LET r == fetchWithRetryFrom(0, statuses, 0)
  IN IF r.outcome = "throw"
     THEN [r EXCEPT !.outcome = "return", !.status = 429, !.error = ""]
     ELSE r

fetchWithRetry(statuses) == fetchWithRetryFrom(0, statuses, 0)

\* The time, counted from the call, at which fetchWithRetry sends each of its
\* n requests: every request after the first follows the waits before it.
RECURSIVE requestOffset(_)
requestOffset(attempt) ==
  IF attempt = 0 THEN 0 ELSE requestOffset(attempt - 1) + waitTime(attempt - 1)

requestOffsets(n) == [k \in 1..n |-> requestOffset(k - 1)]

(***************************************************************************)
(* fetchWithRetry step by step (SpecRetry): one logical call, observed at  *)
(* its awaits.                                                             *)
(***************************************************************************)
ListUrl == "/orders/v0/orders"

ItemsUrl(orderId) == <<"/orders/v0/orders/", orderId, "/items">>

RetryUrls == {ListUrl, ItemsUrl("A"), ItemsUrl("B")}

\* The statuses the remote API answers with.
ApiStatuses == {200, 400, 403, 404, 429, 500, 503}

OutsideRetry ==
  <<orders, nextId, response, mapIn, mapOut, csvTel, orderTel, telResult, parseVars,
    secrets, cachedAccessToken, tokenExpiresAt, tokenCalls, callers, fetch>>

InitRetry ==
  /\ StoreIdle /\ ParseIdle
  /\ mapIn = [kind |-> "none"] /\ mapOut = NotMapped
  /\ csvTel = <<>> /\ orderTel = <<>> /\ telResult = "none"
  /\ secrets = {}
  /\ cachedAccessToken = Null /\ tokenExpiresAt = 0
  /\ now = 0 /\ tokenCalls = 0
  /\ callers = <<>>
  /\ fetch = [pc |-> "idle"]
  /\ \E url \in RetryUrls, token \in {Tok(1), Tok(2)} :
       retry = [pc |-> "loop", url |-> url, token |-> token, attempt |-> 0,
                status |-> 0, error |-> "", log |-> <<>>]

\* await fetch(url, options): the request goes out and the answer comes in.
RetryRequest ==
  \E status \in ApiStatuses :
    /\ retry.pc = "loop"
    /\ retry.attempt < DefaultMaxRetries
    /\ retry' = [retry EXCEPT
                   !.pc = IF status = 429 THEN "sleep" ELSE "returned",
                   !.status = status,
                   !.log = Append(@, [kind |-> "request", url |-> retry.url,
                                      token |-> retry.token, value |-> status])]
    /\ UNCHANGED <<now, OutsideRetry>>

\* await sleep(waitTime); continue
RetrySleep ==
  /\ retry.pc = "sleep"
  /\ now' = now + waitTime(retry.attempt)
  /\ retry' = [retry EXCEPT
                 !.pc = "loop",
                 !.attempt = @ + 1,
                 !.log = Append(@, [kind |-> "sleep", url |-> retry.url,
                                    token |-> retry.token, value |-> waitTime(retry.attempt)])]
  /\ UNCHANGED OutsideRetry

\* The loop ends without a response: throw new Error("Rate limit: ...")
RetryExhausted ==
  /\ retry.pc = "loop"
  /\ retry.attempt >= DefaultMaxRetries
  /\ retry' = [retry EXCEPT !.pc = "thrown", !.status = 0, !.error = RateLimitError]
  /\ UNCHANGED <<now, OutsideRetry>>

NextRetry == RetryRequest \/ RetrySleep \/ RetryExhausted

SpecRetry == InitRetry /\ [][NextRetry]_vars

(***************************************************************************)
(* The remote order client: fetchAmazonOrders (SpecFetch).  One call runs  *)
(* from await to await; what the remote side answers is chosen freely.     *)
(***************************************************************************)
\* Mutant of getAccessToken: the request is sent whatever the environment holds.
getAccessTokenNoConfigCheck(cache, time, env, forceRefresh, res) ==
  LET begin == getAccessTokenBegin(cache, time, SecretNames, forceRefresh) IN
  IF begin.outcome # "request"
  THEN [cache |-> begin.cache, outcome |-> begin.outcome, token |-> begin.token,
        error |-> begin.error, called |-> FALSE]
  ELSE LET end == getAccessTokenEnd(begin.cache, time, res)
       IN [cache |-> end.cache, outcome |-> end.outcome, token |-> end.token,
           error |-> end.error, called |-> TRUE]

\* getAccessToken(forceRefresh) as one call, the token endpoint answering res
\* if it is asked: the cache afterwards, what the call returns or throws and
\* whether the endpoint was called.
getAccessToken(cache, time, env, forceRefresh, res) ==
  LET begin == getAccessTokenBegin(cache, time, env, forceRefresh) IN
  IF begin.outcome # "request"
  THEN [cache |-> begin.cache, outcome |-> begin.outcome, token |-> begin.token,
        error |-> begin.error, called |-> FALSE]
  ELSE LET end == getAccessTokenEnd(begin.cache, time, res)
       IN [cache |-> end.cache, outcome |-> end.outcome, token |-> end.token,
           error |-> end.error, called |-> TRUE]

RdtError == "RDT-Fehler"

\* The restricted data token the tokens endpoint issues.
Rdt == <<"r", "d", "t">>

\* What the tokens endpoint may answer: res.ok and data.restrictedDataToken.
RdtResponses ==
  {[ok |-> TRUE, restrictedDataToken |-> Rdt],
   [ok |-> TRUE, restrictedDataToken |-> Null],
   [ok |-> FALSE, restrictedDataToken |-> Null]}

\* getRestrictedDataToken for the endpoint's answer: the token or the throw.
getRestrictedDataToken(res) ==
  IF ~res.ok \/ ~Truthy(res.restrictedDataToken)
  THEN [outcome |-> "throw", token |-> Null, error |-> RdtError]
  ELSE [outcome |-> "return", token |-> res.restrictedDataToken, error |-> ""]

AuthError == "Zugriff verweigert (403)"

OrdersApiError == "Orders API Fehler"

\* An entry of the errors list: the order it names (Null for none), the
\* status it quotes (0 for none) and its text without the two.
ErrorString(orderId, status, text) == [order |-> orderId, status |-> status, text |-> text]

DegradedWarning ==
  ErrorString(Null, 0,
    "Adressdaten nicht verfügbar (RDT fehlgeschlagen) - Bestellungen werden ohne Adresse importiert")

\* response.ok
IsOk(status) == status >= 200 /\ status <= 299

\* The orders the remote API lists.
RA == [AmazonOrderId |-> O1, OrderStatus |-> "Unshipped",
       ShippingAddress |-> [Name |-> JD, City |-> Bo, Phone |-> TelA]]

RB == [AmazonOrderId |-> O2, OrderStatus |-> "Shipped"]

RCanceled == [AmazonOrderId |-> X9, OrderStatus |-> "Canceled"]

\* The orders the remote API holds for the fetch's range, in list order.
RemoteOrders == <<RA, RCanceled, RB>>

\* payload.Orders of a page that follows `listed` orders: any run of the next ones.
OrderPages(listed) ==
  {SubSeq(RemoteOrders, listed + 1, listed + n) : n \in 0..(Len(RemoteOrders) - listed)}

\* payload.NextToken of the k-th page when another follows it.
ContinuationToken(k) == <<"n", DigitChars[k + 1]>>

\* payload.OrderItems of one order.
ItemLists == {<<>>, <<[OrderItemId |-> I1], [SellerSKU |-> <<"s">>]>>}

\* How the remote API answers the requests of one fetchWithRetry call.
ListAnswers == {<<200>>, <<403>>, <<500>>, <<429, 429, 429>>}

ItemAnswers == {<<200>>, <<403>>, <<404>>, <<429, 429, 429>>}

\* How it answers a call that is repeated under another token.
RepeatAnswers == {<<200>>, <<403>>}

\* What the token endpoint answers to a fetch: tokens live 62 seconds.
TokenAnswers(k) == {res \in TokenResponses(k) : res.expires_in # 61}

\* The body of an item response: json() returns payload.OrderItems or throws.
ItemBodies ==
  {[readable |-> TRUE, items |-> items] : items \in ItemLists}
    \cup {[readable |-> FALSE, items |-> <<>>]}

\* Mutant of callOrdersApi: after a 403 the token is asked for without forcing.
callOrdersApiUnforced(cache, time, env, token, first, tokenRes, second) ==
  LET res == fetchWithRetry(first)
      unrefreshed(outcome, status, error) ==
        [cache |-> cache, time |-> time + res.slept, outcome |-> outcome, status |-> status,
         error |-> error, requests |-> res.requests, firstStatus |-> res.status,
         refreshes |-> 0, tokenCalls |-> 0, retries |-> 0, tokens |-> <<token>>]
  IN IF res.outcome = "throw" THEN unrefreshed("throw", 0, res.error)
     ELSE IF res.status # 403 THEN unrefreshed("return", res.status, "")
     ELSE LET fresh == getAccessToken(cache, time + res.slept, env, FALSE, tokenRes)
              calls == IF fresh.called THEN 1 ELSE 0
          IN IF fresh.outcome = "throw"
             THEN [cache |-> fresh.cache, time |-> time + res.slept, outcome |-> "throw",
                   status |-> 0, error |-> fresh.error, requests |-> res.requests + calls,
                   firstStatus |-> 403, refreshes |-> 1, tokenCalls |-> calls,
                   retries |-> 0, tokens |-> <<token>>]
             ELSE LET again == fetchWithRetry(second)
                  IN [cache |-> fresh.cache, time |-> time + res.slept + again.slept,
                      outcome |-> again.outcome, status |-> again.status,
                      error |-> again.error,
                      requests |-> res.requests + calls + again.requests,
                      firstStatus |-> 403, refreshes |-> 1, tokenCalls |-> calls,
                      retries |-> 1, tokens |-> <<token, fresh.token>>]

\* callOrdersApi(token, params) when the API answers the first fetchWithRetry
\* call with `first`, the token endpoint (if asked) with tokenRes and the
\* second fetchWithRetry call (if made) with `second`.
callOrdersApi(cache, time, env, token, first, tokenRes, second) ==
  LET res == fetchWithRetry(first)
      unrefreshed(outcome, status, error) ==
        [cache |-> cache, time |-> time + res.slept, outcome |-> outcome, status |-> status,
         error |-> error, requests |-> res.requests, firstStatus |-> res.status,
         refreshes |-> 0, tokenCalls |-> 0, retries |-> 0, tokens |-> <<token>>]
  IN IF res.outcome = "throw" THEN unrefreshed("throw", 0, res.error)
     ELSE IF res.status # 403 THEN unrefreshed("return", res.status, "")
     ELSE LET fresh == getAccessToken(cache, time + res.slept, env, TRUE, tokenRes)
              calls == IF fresh.called THEN 1 ELSE 0
          IN IF fresh.outcome = "throw"
             THEN [cache |-> fresh.cache, time |-> time + res.slept, outcome |-> "throw",
                   status |-> 0, error |-> fresh.error, requests |-> res.requests + calls,
                   firstStatus |-> 403, refreshes |-> 1, tokenCalls |-> calls,
                   retries |-> 0, tokens |-> <<token>>]
             ELSE LET again == fetchWithRetry(second)
                  IN [cache |-> fresh.cache, time |-> time + res.slept + again.slept,
                      outcome |-> again.outcome, status |-> again.status,
                      error |-> again.error,
                      requests |-> res.requests + calls + again.requests,
                      firstStatus |-> 403, refreshes |-> 1, tokenCalls |-> calls,
                      retries |-> 1, tokens |-> <<token, fresh.token>>]

JsonError == "Unexpected token in JSON"

\* `Items für ${order.AmazonOrderId}: ${itemRes.status}`
ItemsStatusError(orderId, status) == ErrorString(orderId, status, "Items für :")

\* `${order.AmazonOrderId}: ${err.message}`
ItemsThrownError(orderId, message) == ErrorString(orderId, 0, message)

\* Mutant of fetchOrderItems: a response that is not OK is passed over in silence.
fetchOrderItemsSilent(order, accessToken, rdtRes, first, second, body) ==
  LET orderId == order.AmazonOrderId
      rdt == getRestrictedDataToken(rdtRes)
      itemToken == IF rdt.outcome = "return" THEN rdt.token ELSE accessToken
      res == fetchWithRetry(first)
      repeat == res.outcome = "return" /\ res.status = 403 /\ itemToken # accessToken
      again == fetchWithRetry(second)
      itemRes == IF repeat THEN again ELSE res
      requests == 1 + res.requests + (IF repeat THEN again.requests ELSE 0)
      slept == 500 + res.slept + (IF repeat THEN again.slept ELSE 0)
      requestsAt ==
        <<500>> \o [k \in 1..res.requests |-> 500 + requestOffsets(res.requests)[k]]
          \o (IF repeat
              THEN [k \in 1..again.requests |->
                      500 + res.slept + requestOffsets(again.requests)[k]]
              ELSE <<>>)
      mappedItems == [i \in 1..Len(body.items) |-> mapOrderToSchema(order, body.items[i])]
      thrown(message) ==
        [outcome |-> "thrown", requests |-> requests, slept |-> slept, requestsAt |-> requestsAt,
         errors |-> <<ItemsThrownError(orderId, message)>>, mapped |-> <<>>]
  IN IF res.outcome = "throw" THEN thrown(res.error)
     ELSE IF itemRes.outcome = "throw" THEN thrown(itemRes.error)
     ELSE IF ~IsOk(itemRes.status)
     THEN [outcome |-> "notOk", requests |-> requests, slept |-> slept,
           requestsAt |-> requestsAt,
           errors |-> <<>>, mapped |-> <<>>]
     ELSE IF ~body.readable THEN thrown(JsonError)
     ELSE [outcome |-> "ok", requests |-> requests, slept |-> slept,
           requestsAt |-> requestsAt, errors |-> <<>>,
           mapped |-> SelectSeq(mappedItems, LAMBDA m : Truthy(m.orderItemId))]

\* One turn of the per-order loop for an order that is not cancelled: the
\* tokens endpoint answers rdtRes, the API answers the item call with `first`
\* and its repetition under the access token (if made) with `second`, and
\* body is [readable, items]: whether json() returns, and payload.OrderItems.
fetchOrderItems(order, accessToken, rdtRes, first, second, body) ==
  LET orderId == order.AmazonOrderId
      rdt == getRestrictedDataToken(rdtRes)
      itemToken == IF rdt.outcome = "return" THEN rdt.token ELSE accessToken
      res == fetchWithRetry(first)
      repeat == res.outcome = "return" /\ res.status = 403 /\ itemToken # accessToken
      again == fetchWithRetry(second)
      itemRes == IF repeat THEN again ELSE res
      requests == 1 + res.requests + (IF repeat THEN again.requests ELSE 0)
      slept == 500 + res.slept + (IF repeat THEN again.slept ELSE 0)
      requestsAt ==
        <<500>> \o [k \in 1..res.requests |-> 500 + requestOffsets(res.requests)[k]]
          \o (IF repeat
              THEN [k \in 1..again.requests |->
                      500 + res.slept + requestOffsets(again.requests)[k]]
              ELSE <<>>)
      mappedItems == [i \in 1..Len(body.items) |-> mapOrderToSchema(order, body.items[i])]
      thrown(message) ==
        [outcome |-> "thrown", requests |-> requests, slept |-> slept, requestsAt |-> requestsAt,
         errors |-> <<ItemsThrownError(orderId, message)>>, mapped |-> <<>>]
  IN IF res.outcome = "throw" THEN thrown(res.error)
     ELSE IF itemRes.outcome = "throw" THEN thrown(itemRes.error)
     ELSE IF ~IsOk(itemRes.status)
     THEN [outcome |-> "notOk", requests |-> requests, slept |-> slept,
           requestsAt |-> requestsAt,
           errors |-> <<ItemsStatusError(orderId, itemRes.status)>>, mapped |-> <<>>]
     ELSE IF ~body.readable THEN thrown(JsonError)
     ELSE [outcome |-> "ok", requests |-> requests, slept |-> slept,
           requestsAt |-> requestsAt, errors |-> <<>>,
           mapped |-> SelectSeq(mappedItems, LAMBDA m : Truthy(m.orderItemId))]

OutsideFetch ==
  <<orders, nextId, response, mapIn, mapOut, csvTel, orderTel, telResult, parseVars,
    callers, retry>>

\* The locals of fetchAmazonOrders at entry, with what the model records of
\* the call: its requests, its order-list calls and its turns of the order loop.
FetchEntry ==
  [pc |-> "start", accessToken |-> Null, useRdt |-> TRUE, rdtToken |-> Null,
   nextToken |-> Null, allOrders |-> <<>>, errors |-> <<>>, mapped |-> <<>>, idx |-> 1,
   error |-> "", requests |-> 0, listCalls |-> <<>>, turns |-> <<>>]

InitFetch ==
  /\ StoreIdle /\ ParseIdle
  /\ mapIn = [kind |-> "none"] /\ mapOut = NotMapped
  /\ csvTel = <<>> /\ orderTel = <<>> /\ telResult = "none"
  /\ secrets \in {SecretNames} \cup {SecretNames \ {name} : name \in SecretNames}
  /\ cachedAccessToken = Null /\ tokenExpiresAt = 0
  /\ now = 0 /\ tokenCalls = 0
  /\ callers = <<>>
  /\ fetch = FetchEntry
  /\ retry = [pc |-> "idle"]

TokenCache == [token |-> cachedAccessToken, expiresAt |-> tokenExpiresAt]

\* let accessToken = await getAccessToken()
FetchStart ==
  /\ fetch.pc = "start"
  /\ \E tokenRes \in TokenAnswers(tokenCalls + 1) :
    LET r == getAccessToken(TokenCache, now, secrets, FALSE, tokenRes) IN
    /\ cachedAccessToken' = r.cache.token
    /\ tokenExpiresAt' = r.cache.expiresAt
    /\ tokenCalls' = tokenCalls + (IF r.called THEN 1 ELSE 0)
    /\ fetch' = [fetch EXCEPT
                   !.pc = IF r.outcome = "throw" THEN "failed" ELSE "rdt",
                   !.error = r.error,
                   !.accessToken = r.token,
                   !.requests = @ + (IF r.called THEN 1 ELSE 0)]
    /\ UNCHANGED <<secrets, now, OutsideFetch>>

\* Mutant of rdtOrFallback: the catch block leaves rdtToken unassigned.
rdtOrFallbackNoToken(accessToken, rdt) ==
  IF rdt.outcome = "return"
  THEN [useRdt |-> TRUE, rdtToken |-> rdt.token]
  ELSE [useRdt |-> FALSE, rdtToken |-> Null]

\* try { rdtToken = await getRestrictedDataToken(...) } catch { useRdt = false; rdtToken = accessToken }
rdtOrFallback(accessToken, rdt) ==
  IF rdt.outcome = "return"
  THEN [useRdt |-> TRUE, rdtToken |-> rdt.token]
  ELSE [useRdt |-> FALSE, rdtToken |-> accessToken]

\* The restricted data token for the order-list path, or the fallback.
FetchListRdt ==
  /\ fetch.pc = "rdt"
  /\ \E rdtRes \in RdtResponses :
    LET r == rdtOrFallback(fetch.accessToken, getRestrictedDataToken(rdtRes)) IN
    /\ fetch' = [fetch EXCEPT
                   !.pc = "list",
                   !.useRdt = r.useRdt,
                   !.rdtToken = r.rdtToken,
                   !.requests = @ + 1]
    /\ UNCHANGED <<secrets, cachedAccessToken, tokenExpiresAt, now, tokenCalls, OutsideFetch>>

\* Mutant of pageWait: the next page is asked for at once.
pageWaitNone(nextToken) == 0

\* if (nextToken) { await sleep(2000) }
pageWait(nextToken) == IF Truthy(nextToken) THEN 2000 ELSE 0

\* Mutant of takePage: each page replaces the pages before it.
takePageKeepsLast(allOrders, orderList, next) ==
  [allOrders |-> orderList, nextToken |-> OrElse(next, Null)]

\* allOrders = allOrders.concat(orderList); nextToken = data.payload?.NextToken || null
takePage(allOrders, orderList, next) ==
  [allOrders |-> allOrders \o orderList, nextToken |-> OrElse(next, Null)]

\* One order-list call of the do/while loop, the pacing wait included.
FetchListPage ==
  /\ fetch.pc = "list"
  /\ \E first \in ListAnswers, tokenRes \in TokenAnswers(tokenCalls + 1),
     second \in RepeatAnswers, page \in OrderPages(Len(fetch.allOrders)),
     next \in {ContinuationToken(Len(fetch.listCalls) + 1), Null, <<>>} :
    LET r == callOrdersApi(TokenCache, now, secrets, fetch.rdtToken, first, tokenRes, second)
        failed == r.outcome = "throw" \/ ~IsOk(r.status)
        orderList == IF failed THEN <<>> ELSE page
        taken == takePage(fetch.allOrders, orderList, next)
        nextToken == IF failed THEN Null ELSE taken.nextToken
        call == [sent |-> fetch.nextToken, tokens |-> r.tokens, firstStatus |-> r.firstStatus,
                 cachedBefore |-> cachedAccessToken, validBefore |-> now < tokenExpiresAt,
                 refreshes |-> r.refreshes, tokenCalls |-> r.tokenCalls,
                 retries |-> r.retries, outcome |-> r.outcome, status |-> r.status,
                 error |-> r.error, start |-> now, end |-> r.time,
                 answered |-> nextToken, orders |-> orderList]
    IN \* the choices that no code path reads are fixed
       /\ r.refreshes = 0 => tokenRes.ok /\ Truthy(tokenRes.access_token)
       /\ r.retries = 0 => second = <<200>>
       /\ failed => page = <<>> /\ next = Null
       \* the remote side serves at most MaxPages pages
       /\ Len(fetch.listCalls) + 1 >= MaxPages => ~Truthy(next)
       /\ cachedAccessToken' = r.cache.token
       /\ tokenExpiresAt' = r.cache.expiresAt
       /\ tokenCalls' = tokenCalls + r.tokenCalls
       /\ now' = r.time + pageWait(nextToken)
       /\ fetch' = [fetch EXCEPT
                      !.pc = IF failed THEN "failed"
                             ELSE IF Truthy(nextToken) THEN "list" ELSE "listed",
                      !.error = IF r.outcome = "throw" THEN r.error
                                ELSE IF r.status = 403 THEN AuthError
                                ELSE IF ~IsOk(r.status) THEN OrdersApiError
                                ELSE "",
                      !.allOrders = IF failed THEN @ ELSE taken.allOrders,
                      !.nextToken = nextToken,
                      !.requests = @ + r.requests,
                      !.listCalls = Append(@, call)]
       /\ UNCHANGED <<secrets, OutsideFetch>>

\* After the loop: the warning, and accessToken = await getAccessToken()
FetchAfterList ==
  /\ fetch.pc = "listed"
  /\ \E tokenRes \in TokenAnswers(tokenCalls + 1) :
    LET r == getAccessToken(TokenCache, now, secrets, FALSE, tokenRes) IN
    /\ ~r.called => tokenRes.ok /\ Truthy(tokenRes.access_token)
    /\ cachedAccessToken' = r.cache.token
    /\ tokenExpiresAt' = r.cache.expiresAt
    /\ tokenCalls' = tokenCalls + (IF r.called THEN 1 ELSE 0)
    /\ fetch' = [fetch EXCEPT
                   !.pc = IF r.outcome = "throw" THEN "failed" ELSE "items",
                   !.error = r.error,
                   !.errors = IF ~fetch.useRdt /\ Len(fetch.allOrders) > 0
                              THEN Append(@, DegradedWarning) ELSE @,
                   !.accessToken = IF r.outcome = "throw" THEN @ ELSE r.token,
                   !.requests = @ + (IF r.called THEN 1 ELSE 0)]
    /\ UNCHANGED <<secrets, now, OutsideFetch>>

\* if (order.OrderStatus === "Canceled") continue
FetchSkipCanceled ==
  /\ fetch.pc = "items"
  /\ fetch.idx <= Len(fetch.allOrders)
  /\ fetch.allOrders[fetch.idx].OrderStatus = "Canceled"
  /\ fetch' = [fetch EXCEPT
                 !.idx = @ + 1,
                 !.turns = Append(@, [order |-> fetch.allOrders[fetch.idx].AmazonOrderId,
                                      outcome |-> "skipped", requests |-> 0,
                                      start |-> now, requestsAt |-> <<>>])]
  /\ UNCHANGED <<secrets, cachedAccessToken, tokenExpiresAt, now, tokenCalls, OutsideFetch>>

\* One turn of the per-order loop for an order that is not cancelled.
FetchOrderItems ==
  /\ fetch.pc = "items"
  /\ fetch.idx <= Len(fetch.allOrders)
  /\ fetch.allOrders[fetch.idx].OrderStatus # "Canceled"
  /\ \E rdtRes \in RdtResponses, first \in ItemAnswers, second \in RepeatAnswers,
     body \in ItemBodies :
    LET order == fetch.allOrders[fetch.idx]
        r == fetchOrderItems(order, fetch.accessToken, rdtRes, first, second, body)
        repeated == fetchWithRetry(first).status = 403
                      /\ getRestrictedDataToken(rdtRes).outcome = "return"
    IN \* the choices that no code path reads are fixed
       /\ ~repeated => second = <<200>>
       /\ r.outcome # "ok" => body = [readable |-> FALSE, items |-> <<>>]
       /\ now' = now + r.slept
       /\ fetch' = [fetch EXCEPT
                      !.idx = @ + 1,
                      !.errors = @ \o r.errors,
                      !.mapped = @ \o r.mapped,
                      !.requests = @ + r.requests,
                      !.turns = Append(@, [order |-> order.AmazonOrderId,
                                           outcome |-> r.outcome,
                                           requests |-> r.requests,
                                           start |-> now,
                                           requestsAt |-> [k \in 1..Len(r.requestsAt) |->
                                                             now + r.requestsAt[k]]])]
       /\ UNCHANGED <<secrets, cachedAccessToken, tokenExpiresAt, tokenCalls, OutsideFetch>>

\* return { orders: allMappedOrders, errors }
FetchReturn ==
  /\ fetch.pc = "items"
  /\ fetch.idx > Len(fetch.allOrders)
  /\ fetch' = [fetch EXCEPT !.pc = "done"]
  /\ UNCHANGED <<secrets, cachedAccessToken, tokenExpiresAt, now, tokenCalls, OutsideFetch>>

NextFetch ==
  \/ FetchStart \/ FetchListRdt \/ FetchListPage \/ FetchAfterList
  \/ FetchSkipCanceled \/ FetchOrderItems \/ FetchReturn

SpecFetch == InitFetch /\ [][NextFetch]_vars

(***************************************************************************)
(* The field mappers on their own: one raw record in, one candidate out.   *)
(***************************************************************************)
AmazonInputs ==
  {[kind |-> "amazon", r |-> AmazonRow(orderId, itemId, name, tel, Bo, DE)] :
     orderId \in {<<>>, O1}, itemId \in {<<>>, I1, EbayMarker},
     name \in {<<>>, <<"J">>, JD, <<" ", "J", " ", " ", "K", " ", "D">>},
     tel \in {<<>>, TelA}}

EbayInputs ==
  {[kind |-> "ebay", r |-> EbayRow(orderId, salesRecordId, transactionId, service, tracking)] :
     orderId \in {<<>>, O2}, salesRecordId \in {<<>>, <<"7">>},
     transactionId \in {<<>>, <<"8">>}, service \in {<<>>, DHL}, tracking \in {<<>>, T1}}

RemoteInputs ==
  {[kind |-> "remote", order |-> order, item |-> item] :
     order \in {[AmazonOrderId |-> O1,
                 ShippingAddress |-> [Name |-> JD, City |-> Bo, Phone |-> TelA]],
                [AmazonOrderId |-> O1, BuyerInfo |-> [BuyerName |-> KL]],
                [AmazonOrderId |-> O2],
                [PurchaseDate |-> <<"d">>]},
     item \in {[OrderItemId |-> I1], [OrderItemId |-> <<>>], [SellerSKU |-> <<"s">>]}}

MapInputs == AmazonInputs \cup EbayInputs \cup RemoteInputs

applyMapper(in) ==
  CASE in.kind = "amazon" -> mapAmazonRecord(in.r)
    [] in.kind = "ebay" -> mapEbayRecord(in.r)
    [] in.kind = "remote" -> mapOrderToSchema(in.order, in.item)

InitMap ==
  /\ StoreIdle /\ ParseIdle /\ ClientIdle
  /\ mapIn \in MapInputs /\ mapOut = NotMapped
  /\ csvTel = <<>> /\ orderTel = <<>> /\ telResult = "none"

MapRecord ==
  /\ mapOut = NotMapped
  /\ mapOut' = applyMapper(mapIn)
  /\ UNCHANGED <<orders, nextId, response, mapIn, csvTel, orderTel, telResult, parseVars, clientVars>>

SpecMap == InitMap /\ [][MapRecord]_vars

(***************************************************************************)
(* The quantity field of the three mappers on its own (SpecQuantity).      *)
(***************************************************************************)
NaN == [nan |-> TRUE, value |-> 0]

\* The value of a decimal digit, and of a run of digits.
DigitValue(c) == CHOOSE d \in 0..9 : DigitChars[d + 1] = c

RECURSIVE DigitsValue(_)
DigitsValue(s) ==
  IF s = <<>> THEN 0 ELSE 10 * DigitsValue(SubSeq(s, 1, Len(s) - 1)) + DigitValue(s[Len(s)])

\* parseInt(s, 10): leading white space, an optional sign, then the longest
\* run of digits; NaN when that run is empty.
parseInt(s) ==
  LET t == TrimStart(s)
      signed == t # <<>> /\ Head(t) \in {"-", "+"}
      body == IF signed THEN Tail(t) ELSE t
      isDigit(c) == \E d \in 1..10 : DigitChars[d] = c
      run == {n \in 0..Len(body) : \A i \in 1..n : isDigit(body[i])}
      len == CHOOSE n \in run : \A m \in run : m <= n
      magnitude == DigitsValue(SubSeq(body, 1, len))
  IN IF len = 0 THEN NaN
     ELSE [nan |-> FALSE,
           value |-> IF signed /\ Head(t) = "-" THEN 0 - magnitude ELSE magnitude]

\* n || 1 for a number n: NaN and 0 are falsy.
NumberOrOne(n) == IF n.nan \/ n.value = 0 THEN 1 ELSE n.value

\* quantity: parseInt(r["quantity-purchased"] || "1", 10) || 1
mapAmazonRecordQuantity(r) ==
  NumberOrOne(parseInt(OrElse(Cell(r, "quantity-purchased"), <<"1">>)))

\* quantity: parseInt(r["Anzahl"] || r["Menge"] || "1", 10) || 1
mapEbayRecordQuantity(r) ==
  NumberOrOne(parseInt(OrElse(OrElse(Cell(r, "Anzahl"), Cell(r, "Menge")), <<"1">>)))

\* quantity: item.QuantityOrdered || 1
mapOrderToSchemaQuantity(item) ==
  IF "QuantityOrdered" \in DOMAIN item
  THEN NumberOrOne([nan |-> FALSE, value |-> item.QuantityOrdered])
  ELSE 1

\* The texts of a quantity cell.
QuantityTexts == UNION {[1..n -> {"-", "0", "1", "2", "x"}] : n \in 0..MaxQtyLen}

QuantityInputs ==
  {[kind |-> "amazon", r |-> [x \in {} |-> <<>>]]}
    \cup {[kind |-> "amazon", r |-> ("quantity-purchased" :> t)] : t \in QuantityTexts}
    \cup {[kind |-> "ebay", r |-> [Menge |-> m]] : m \in {<<>>, <<"2">>, <<"x">>}}
    \cup {[kind |-> "ebay", r |-> [Anzahl |-> t, Menge |-> m]] :
            t \in QuantityTexts, m \in {<<>>, <<"2">>}}
    \cup {[kind |-> "remote", item |-> [OrderItemId |-> I1]]}
    \cup {[kind |-> "remote", item |-> [OrderItemId |-> I1, QuantityOrdered |-> n]] :
            n \in (0 - 1)..(MaxQtyLen)}

InitQuantity ==
  /\ StoreIdle /\ ParseIdle /\ ClientIdle
  /\ mapIn \in QuantityInputs /\ mapOut = NotMapped
  /\ csvTel = <<>> /\ orderTel = <<>> /\ telResult = "none"

\* The mapper of the input's platform, of which the model keeps the quantity.
MapQuantity ==
  /\ mapOut = NotMapped
  /\ mapOut' = [platform |-> mapIn.kind,
                quantity |-> CASE mapIn.kind = "amazon" -> mapAmazonRecordQuantity(mapIn.r)
                               [] mapIn.kind = "ebay" -> mapEbayRecordQuantity(mapIn.r)
                               [] mapIn.kind = "remote" -> mapOrderToSchemaQuantity(mapIn.item)]
  /\ UNCHANGED <<orders, nextId, response, mapIn, csvTel, orderTel, telResult, parseVars, clientVars>>

SpecQuantity == InitQuantity /\ [][MapQuantity]_vars

(***************************************************************************)
(* The phone predicate on its own: a manifest "Tel" cell against the phone *)
(* column of one order.                                                    *)
(***************************************************************************)
TelDigits == UNION {[1..n -> {"1", "2"}] : n \in 0..MaxTelLen}

\* A number as an export writes it: "+", a hyphen after the first digit, a
\* trailing blank.
Formatted(s) ==
  IF s = <<>> THEN <<"+", " ">>
  ELSE <<"+", Head(s), "-">> \o Tail(s) \o <<" ">>

InitTel ==
  /\ StoreIdle /\ ParseIdle /\ ClientIdle
  /\ mapIn = [kind |-> "none"] /\ mapOut = NotMapped
  /\ \E a \in TelDigits, b \in TelDigits :
       \/ csvTel = a /\ orderTel = b
       \/ csvTel = Formatted(a) /\ orderTel = b
       \/ csvTel = a /\ orderTel = Formatted(b)
  /\ telResult = "none"

EvalPhoneMatch ==
  /\ telResult = "none"
  /\ telResult' = IF phoneMatch(StripPhone(Trim(csvTel)), orderTel) THEN "match" ELSE "no match"
  /\ UNCHANGED <<orders, nextId, response, mapIn, mapOut, csvTel, orderTel, parseVars, clientVars>>

SpecTel == InitTel /\ [][EvalPhoneMatch]_vars

(***************************************************************************)
(* The delimiter detection of parseFile on its own: the lines of a file    *)
(* in, the delimiter out.                                                  *)
(***************************************************************************)
HeaderLines == UNION {[1..n -> {"\t", ";", ",", "a"}] : n \in 0..MaxLineLen}

\* What an export may write before the header row: nothing, or one line of
\* separators only.
Preambles == {<<>>, <<<<>>>>, <<<<";", ";">>>>, <<<<"\t", " ">>>>}

InitDelim ==
  /\ StoreIdle /\ ClientIdle
  /\ mapIn = [kind |-> "none"] /\ mapOut = NotMapped
  /\ csvTel = <<>> /\ orderTel = <<>> /\ telResult = "none"
  /\ \E pre \in Preambles, line \in HeaderLines : delimIn = pre \o <<line>>
  /\ delimOut = "none"

DetectDelimiter ==
  /\ delimOut = "none"
  /\ delimOut' = parseFileDelimiter(delimIn)
  /\ UNCHANGED <<orders, nextId, response, mapIn, mapOut, csvTel, orderTel, telResult,
                 delimIn, clientVars>>

SpecDelim == InitDelim /\ [][DetectDelimiter]_vars

\* The line the tokenizer takes the column names from: columns: true makes
\* it the first line of lines.slice(headerLineIndex) that skip_empty_lines
\* does not pass over.
parseFileColumns(lines) ==
  LET from == headerLineIndex(lines)
      nonEmpty == {i \in from..Len(lines) : lines[i] # <<>>}
  IN IF nonEmpty = {} THEN <<>>
     ELSE lines[CHOOSE i \in nonEmpty : \A j \in nonEmpty : i <= j]

\* The lines an export may write before the header row: an empty line, or a
\* line of separators only.
LeadingLines == {<<>>, <<";", ";">>, <<",">>}

\* The header rows of the files, one for each delimiter.
RealHeaders == {<<"a", ";", "b">>, <<"a", ",", "b">>, <<"a", "\t", "b">>}

\* A data row under the header.
DataRow == <<"1", ";", "2">>

InitHeader ==
  /\ StoreIdle /\ ClientIdle
  /\ mapIn = [kind |-> "none"] /\ mapOut = NotMapped
  /\ csvTel = <<>> /\ orderTel = <<>> /\ telResult = "none"
  /\ \E k \in 0..MaxLeading :
       \E pre \in [1..k -> LeadingLines], header \in RealHeaders :
         delimIn = pre \o <<header, DataRow>>
  /\ delimOut = "none"

\* parseFile up to the call of the tokenizer.
FindHeader ==
  /\ delimOut = "none"
  /\ delimOut' = parseFileDelimiter(delimIn)
  /\ UNCHANGED <<orders, nextId, response, mapIn, mapOut, csvTel, orderTel, telResult,
                 delimIn, clientVars>>

SpecHeader == InitHeader /\ [][FindHeader]_vars

(***************************************************************************)
(* Properties of the import path (Spec).                                   *)
(***************************************************************************)
Range(s) == {s[i] : i \in 1..Len(s)}

\* The records parseFile returns for an upload it can read.
ParsedRows(u) == IF u.hasFile /\ ~u.parseThrows THEN filterRecords(u.rows) ELSE <<>>

\* The orderItemIds the rows of an upload map to, in file order.
FileIds(u) == [i \in 1..Len(u.rows) |-> mapRecords(u.rows)[i].orderItemId]

\* A file of well-formed rows: every row survives parsing and maps to an
\* identifier of its own that is neither empty nor the bare marker "ebay-".
WellFormed(u) ==
  /\ u.hasFile /\ ~u.parseThrows
  /\ Len(u.rows) > 0
  /\ filterRecords(u.rows) = u.rows
  /\ \A i \in 1..Len(u.rows) : FileIds(u)[i] \notin {<<>>, Null, EbayMarker}
  /\ \A i, j \in 1..Len(u.rows) : FileIds(u)[i] = FileIds(u)[j] => i = j

StoredIds(db) == {o.orderItemId : o \in db}

\* C1: importing a file of N well-formed rows, none of them stored yet,
\* reports imported = N and duplicates = 0; importing the same file again
\* reports imported = 0 and duplicates = N and leaves the store as it was.
C1_ImportIdempotent ==
  \A u \in OrderFiles :
    (WellFormed(u) /\ Range(FileIds(u)) \cap StoredIds(orders) = {}) =>
      LET n == Len(u.rows)
          first == importFile(orders, nextId, u)
          second == importFile(first.db, first.serial, u)
      IN /\ first.response.status = 200
         /\ first.response.body.imported = n
         /\ first.response.body.duplicates = 0
         /\ Cardinality(first.db) = Cardinality(orders) + n
         /\ second.response.status = 200
         /\ second.response.body.imported = 0
         /\ second.response.body.duplicates = n
         /\ second.db = first.db

\* A two-row file has been imported a second time.
C1_Witness ==
  /\ response.op = "import" /\ response.status = 200
  /\ response.body.imported = 0
  /\ response.body.duplicateIds = <<I1, I2>>
  /\ StoredIds(orders) = {I1, I2}

\* C2: when several rows of one file map to the same orderItemId, exactly
\* one record with that id is imported, and it is the one mapped from the
\* first of those rows.
C2_FirstRowWins ==
  \A u \in OrderFiles :
    LET records == ParsedRows(u)
        mapped == mapRecords(records)
        after == importFile(orders, nextId, u).db
    IN \A i, j \in 1..Len(records) :
         ( /\ i < j
           /\ mapped[i].orderItemId = mapped[j].orderItemId
           /\ mapped[i].orderItemId \notin {<<>>, Null, EbayMarker}
           /\ mapped[i].orderItemId \notin StoredIds(orders)
           /\ \A k \in 1..(i - 1) : mapped[k].orderItemId # mapped[i].orderItemId ) =>
         LET stored == {o \in after : o.orderItemId = mapped[i].orderItemId}
         IN /\ Cardinality(stored) = 1
            /\ \A o \in stored : \A f \in DOMAIN mapped[i] : o[f] = mapped[i][f]

\* The file whose first row of item i1 belongs to order o2 and whose second
\* row of item i1 belongs to order o1 has been imported.
C2_Witness ==
  /\ response.op = "import" /\ response.status = 200
  /\ response.body.imported = 1
  /\ \E o \in orders : o.orderItemId = I1 /\ o.orderId = O2 /\ o.lastName = <<"L">>

\* C3: after any sequence of imports, fetches, manifest reconciliations and
\* updates, every stored order is "Versendet" exactly when its carrier, its
\* tracking number and its shipping date are all non-empty, and "Offen"
\* otherwise, whatever status a caller sent.
C3_StatusInvariant ==
  \A o \in orders :
    LET set(v) == v # Null /\ Len(v) > 0 IN
    /\ o.status \in {"Offen", "Versendet"}
    /\ o.status = "Versendet" <=>
         (set(o.shippingCarrier) /\ set(o.trackingNumber) /\ set(o.shippingDate))

\* An update that sent status "Versendet" with an empty tracking number has
\* been answered with the order stored as "Offen".
C3_Witness ==
  /\ response.op = "patch" /\ response.status = 200
  /\ response.body.trackingNumber = <<>>
  /\ response.body.status = "Offen"
  /\ \E o \in orders : o.status = "Versendet"

\* The candidate lists the two import routes hand to the store.
CandidateLists ==
  {dedupBatch(mapRecords(ParsedRows(u))) : u \in OrderFiles}
    \cup {dedupBatch(mapFetched(pairs)) : pairs \in FetchedBatches}

\* C4: no two stored orders share an orderItemId; a candidate of a batch
\* whose id is already stored is rejected for that row only, and every other
\* candidate of the batch is still inserted.
C4_UniqueItemIds ==
  /\ \A o1, o2 \in orders : o1.orderItemId = o2.orderItemId => o1 = o2
  /\ \A orderList \in CandidateLists :
       LET res == createOrders(orders, nextId, orderList) IN
       /\ \A o1, o2 \in res.db : o1.orderItemId = o2.orderItemId => o1 = o2
       /\ \A i \in 1..Len(orderList) :
            IF orderList[i].orderItemId \in StoredIds(orders)
            THEN {o \in res.db : o.orderItemId = orderList[i].orderItemId} \subseteq orders
            ELSE \E o \in res.db \ orders :
                   \A f \in DOMAIN orderList[i] : o[f] = orderList[i][f]

\* A batch whose first candidate was already stored has had its second
\* candidate inserted.
C4_Witness ==
  /\ response.op \in {"import", "fetch-amazon"} /\ response.status = 200
  /\ response.body.imported = 1
  /\ response.body.duplicateIds = <<I1>>
  /\ StoredIds(orders) = {I1, I2}

\* C5: importing a batch that holds an orderItemId already stored leaves the
\* stored record as it is, whatever the incoming row says, and the id is
\* listed in duplicateIds.
C5_ReimportKeepsRecord ==
  \A orderList \in CandidateLists :
    LET res == createOrders(orders, nextId, orderList) IN
    \A o \in orders :
      (\E i \in 1..Len(orderList) : orderList[i].orderItemId = o.orderItemId) =>
        /\ o \in res.db
        /\ {p \in res.db : p.id = o.id} = {o}
        /\ o.orderItemId \in Range(res.result.duplicateIds)

\* An order that was already shipped has been imported again.
C5_Witness ==
  /\ response.op = "import" /\ response.status = 200
  /\ response.body.imported = 0
  /\ response.body.duplicateIds = <<I1>>
  /\ \E o \in orders : o.orderItemId = I1 /\ o.status = "Versendet"

(***************************************************************************)
(* Properties of the field mappers (SpecMap).                              *)
(***************************************************************************)
\* C6 as stated: every mapper (Amazon file, eBay file, remote order) leaves
\* carrier, tracking number and shipping date null and the status "Offen".
C6_AllShippingFieldsNull ==
  mapOut # NotMapped =>
    /\ mapOut.shippingCarrier = Null
    /\ mapOut.trackingNumber = Null
    /\ mapOut.shippingDate = Null
    /\ mapOut.status = "Offen"

\* C6 as the mappers behave: every mapper leaves the shipping date null and
\* the status "Offen"; the Amazon file mapper and the remote mapper leave
\* carrier and tracking number null; the eBay mapper copies the columns
\* "Versandservice" and "Sendungsnummer" into them, null when the cell is empty.
C6_MappersLeaveUnshipped ==
  mapOut # NotMapped =>
    LET cellOrNull(col) == IF Cell(mapIn.r, col) = <<>> THEN Null ELSE Cell(mapIn.r, col) IN
    /\ mapOut.shippingDate = Null
    /\ mapOut.status = "Offen"
    /\ mapIn.kind # "ebay" => mapOut.shippingCarrier = Null /\ mapOut.trackingNumber = Null
    /\ mapIn.kind = "ebay" =>
         /\ mapOut.shippingCarrier = cellOrNull("Versandservice")
         /\ mapOut.trackingNumber = cellOrNull("Sendungsnummer")

\* An eBay row with a shipping service and a tracking number has been mapped.
C6_Witness ==
  /\ mapIn.kind = "ebay"
  /\ mapOut # NotMapped
  /\ mapOut.shippingCarrier = DHL
  /\ mapOut.trackingNumber = T1
  /\ mapOut.status = "Offen"

(***************************************************************************)
(* Properties of the manifest reconciliation (Spec).                       *)
(***************************************************************************)
ManifestRowsUsed == UNION {Range(u.rows) : u \in Manifests}

\* The row loop's accumulators at the start of a request, and after earlier rows.
Accumulators ==
  {[updated |-> 0, notFound |-> <<>>, fuzzyMatched |-> <<>>, ambiguous |-> <<>>],
   [updated |-> 1, notFound |-> <<O2>>, fuzzyMatched |-> <<>>, ambiguous |-> <<O2>>]}

RowState(db, acc) == [db |-> db, allOrders |-> db] @@ acc

\* The predicates of the fuzzy search that hold between a manifest row and an order.
PredicatesHeld(r, o) ==
  (IF nameMatch(csvNameOf(r), o) THEN 1 ELSE 0)
    + (IF phoneMatch(csvPhoneOf(r), o.phone) THEN 1 ELSE 0)
    + (IF cityMatch(csvOrtOf(r), o) THEN 1 ELSE 0)

\* A row with a reference no order carries, whose city is the city of at
\* least two stored orders and whose name and phone match no stored order.
CityOnlyRow(db, r) ==
  /\ Truthy(Trim(Cell(r, "Referenz")))
  /\ getOrdersByOrderId(db, Trim(Cell(r, "Referenz"))) = {}
  /\ Cardinality({o \in db : cityMatch(csvOrtOf(r), o)}) >= 2
  /\ \A o \in db : ~nameMatch(csvNameOf(r), o) /\ ~phoneMatch(csvPhoneOf(r), o.phone)

\* C7 as stated: a manifest row that matches only on city, with at least two
\* stored orders in that city, is reported as ambiguous.
C7_CityOnlyAmbiguous ==
  \A r \in ManifestRowsUsed :
    CityOnlyRow(orders, r) =>
      LET start == CHOOSE acc \in Accumulators : acc.updated = 0 IN
      Trim(Cell(r, "Referenz")) \in Range(processRow(RowState(orders, start), r).ambiguous)

\* C7 as the row loop behaves: such a row has no fuzzy candidate at all (a
\* candidate needs two of the three predicates), so its reference is
\* reported in notFound, nothing is reported as ambiguous or fuzzy-matched,
\* and no order is updated.
C7_CityOnlyNotFound ==
  \A r \in ManifestRowsUsed, acc \in Accumulators :
    CityOnlyRow(orders, r) =>
      processRow(RowState(orders, acc), r) =
        [RowState(orders, acc) EXCEPT !.notFound = Append(@, Trim(Cell(r, "Referenz")))]

\* The manifest whose only row agrees with two stored orders on the city
\* alone has been reconciled.
C7_Witness ==
  /\ response.op = "import-shipping" /\ response.status = 200
  /\ response.body.notFound = <<X9>>
  /\ response.body.ambiguous = <<>>
  /\ response.body.updated = 0
  /\ CityOnlyRow(orders, MCityOnly)

\* C8: when the exact lookup finds nothing and two or more stored orders
\* are fuzzy candidates (at least two of name, phone, city match), the
\* reference is added to ambiguous and nothing else happens: no order is
\* updated, the updated count stays, fuzzyMatched and notFound get no entry.
C8_AmbiguousLeftAlone ==
  \A r \in ManifestRowsUsed, acc \in Accumulators :
    ( /\ Truthy(Trim(Cell(r, "Referenz")))
      /\ getOrdersByOrderId(orders, Trim(Cell(r, "Referenz"))) = {}
      /\ Cardinality({o \in orders : PredicatesHeld(r, o) >= 2}) >= 2 ) =>
      processRow(RowState(orders, acc), r) =
        [RowState(orders, acc) EXCEPT !.ambiguous = Append(@, Trim(Cell(r, "Referenz")))]

\* A manifest row that agrees with two stored orders on name and city has
\* been reconciled.
C8_Witness ==
  /\ response.op = "import-shipping" /\ response.status = 200
  /\ response.body.ambiguous = <<X9>>
  /\ response.body.updated = 0
  /\ response.body.fuzzyMatched = <<>>
  /\ Cardinality({o \in orders : PredicatesHeld(MNameCity, o) >= 2}) >= 2

\* The orders a manifest row resolves to and updates.
RowTargets(db, r) ==
  LET st == RowState(db, CHOOSE acc \in Accumulators : acc.updated = 0) IN
  IF ~Truthy(Trim(Cell(r, "Referenz"))) \/ Cardinality(rowCandidates(st, r)) > 1 THEN {}
  ELSE {o.id : o \in rowMatchingOrders(st, r)}

\* C10 as stated: "updated" counts each stored order at most once, so it
\* never exceeds the number of distinct orders the rows of the manifest
\* resolve to.
C10_UpdatedCountsOrdersOnce ==
  \A u \in Manifests :
    LET res == importShipping(orders, u) IN
    res.response.status = 200 =>
      res.response.body.updated
        <= Cardinality(UNION {RowTargets(orders, r) : r \in Range(ParsedRows(u))})

(***************************************************************************)
(* Properties of the phone predicate (SpecTel).                            *)
(***************************************************************************)
\* A number without spaces, hyphens and plus signs.
Digits(s) == SelectSeq(s, LAMBDA c : c \notin {" ", "-", "+"})

LastSix(s) == SubSeq(s, Len(s) - 5, Len(s))

\* C9: the phone predicate is true only if both numbers, after removing
\* spaces, hyphens and plus signs, have at least 6 characters and their
\* last 6 characters are identical.
C9_PhoneNeedsSixDigits ==
  telResult = "match" =>
    /\ Len(Digits(csvTel)) >= 6
    /\ Len(Digits(orderTel)) >= 6
    /\ LastSix(Digits(csvTel)) = LastSix(Digits(orderTel))

\* A formatted manifest number of 5 digits that is the tail of the order's
\* longer number has been compared and did not match.
C9_Witness ==
  /\ telResult = "no match"
  /\ csvTel # Digits(csvTel)
  /\ Len(Digits(csvTel)) = 5
  /\ Len(orderTel) >= 6
  /\ SubSeq(orderTel, Len(orderTel) - 4, Len(orderTel)) = Digits(csvTel)

C13_CachedTokenReused ==
  [][\A p \in Callers :
       /\ ( /\ callers[p].pc = "idle" /\ callers'[p].pc # "idle"
            /\ ~callers'[p].force
            /\ cachedAccessToken \notin {Null, <<>>}
            /\ now < tokenExpiresAt ) =>
            /\ callers'[p].pc = "done"
            /\ callers'[p].token = cachedAccessToken
            /\ tokenCalls' = tokenCalls
            /\ cachedAccessToken' = cachedAccessToken
            /\ tokenExpiresAt' = tokenExpiresAt
       /\ (callers[p].pc = "awaitToken" /\ callers'[p].outcome = "return") =>
            /\ cachedAccessToken' = callers'[p].token
            /\ tokenExpiresAt' = (now + callers'[p].expiresIn * 1000) - 60000
    ]_vars

\* One second after the only token request was answered with a validity of
\* 62 s, a non-forced call has returned the cached token.
C13_Witness ==
  /\ tokenCalls = 1
  /\ now = 1000 /\ tokenExpiresAt = 2000
  /\ \E p \in Callers :
       /\ callers[p].outcome = "cached"
       /\ callers[p].token = cachedAccessToken
       /\ callers[p].token = Tok(1)

\* C14 as stated: fetches that find the token absent or expired share one
\* refresh, so at no time are two of their non-forced getAccessToken calls
\* waiting for the token endpoint.
C14_SingleFlightRefresh ==
  Cardinality({p \in Callers : callers[p].pc = "awaitToken" /\ ~callers[p].force}) <= 1

(***************************************************************************)
(* Properties of fetchWithRetry (SpecRetry).                               *)
(***************************************************************************)
\* The requests of the call so far, in order.
RetryRequests == SelectSeq(retry.log, LAMBDA e : e.kind = "request")

\* C16: one logical call sends at most 3 requests; the k-th request
\* (k = 0, 1, 2) answered with 429 is followed by a wait of 2000 * 2^k ms and
\* by nothing else before it; the call returns the first response whose
\* status is not 429, and when all 3 requests are answered with 429 it
\* raises the rate-limit error.
C16_BackoffThenGiveUp ==
  LET log == retry.log
      n == Len(RetryRequests)
      power(k) == IF k = 0 THEN 1 ELSE IF k = 1 THEN 2 ELSE 4
  IN /\ n <= 3
     /\ \A i \in 1..Len(log) :
          /\ log[i].kind = (IF i % 2 = 1 THEN "request" ELSE "sleep")
          /\ log[i].kind = "sleep" =>
               /\ log[i - 1].value = 429
               /\ log[i].value = 2000 * power((i \div 2) - 1)
          /\ (log[i].kind = "request" /\ log[i].value = 429 /\ i < Len(log)) =>
               log[i + 1].kind = "sleep"
          /\ (log[i].kind = "request" /\ i < Len(log)) => log[i].value = 429
     /\ (log # <<>> /\ log[Len(log)].kind = "request") =>
          retry.pc = (IF log[Len(log)].value = 429 THEN "sleep" ELSE "returned")
     /\ retry.pc = "returned" =>
          /\ retry.status = log[Len(log)].value
          /\ retry.status # 429
     /\ retry.pc = "thrown" <=>
          (n = 3 /\ Len(log) = 6 /\ \A i \in 1..3 : RetryRequests[i].value = 429
             /\ retry.error = RateLimitError)
     /\ fetchWithRetry([i \in 1..3 |-> 429]).outcome = "throw"

\* A call has returned the answer to its third request, 6 s after its first.
C16_Witness ==
  /\ retry.pc = "returned"
  /\ retry.status = 200
  /\ Len(RetryRequests) = 3
  /\ now = 6000

\* The orders of the pages of the order-list calls, in page order.
RECURSIVE PagesInOrder(_)
PagesInOrder(calls) ==
  IF calls = <<>> THEN <<>>
  ELSE PagesInOrder(SubSeq(calls, 1, Len(calls) - 1)) \o calls[Len(calls)].orders

\* C12: the first order-list request of a fetch carries no continuation token
\* and every later one carries the token of the response before it; another
\* list request follows exactly when the last response carried a token; and
\* the orders the fetch goes on to process are the orders of all fetched
\* pages, concatenated in page order.
C12_PaginationFollowsToken ==
  LET calls == fetch.listCalls
      last == calls[Len(calls)]
  IN /\ \A i \in 1..Len(calls) :
          /\ calls[i].sent = (IF i = 1 THEN Null ELSE calls[i - 1].answered)
          /\ i < Len(calls) => calls[i].outcome = "return" /\ IsOk(calls[i].status)
                                 /\ Truthy(calls[i].answered)
     /\ fetch.pc = "list" /\ calls # <<>> => Truthy(last.answered)
     /\ fetch.pc \in {"listed", "items", "done"} =>
          /\ calls # <<>> /\ ~Truthy(last.answered)
          /\ fetch.allOrders = PagesInOrder(calls)

\* A fetch that returned after two pages with orders on both.
C12_Witness ==
  /\ fetch.pc = "done"
  /\ Len(fetch.listCalls) = MaxPages
  /\ \A i \in 1..Len(fetch.listCalls) : fetch.listCalls[i].orders # <<>>

\* C15: when one of the three secrets is missing, a getAccessToken call that
\* has no usable cached token throws the configuration error without asking
\* the token endpoint, and the fetch that made the call ends with that error
\* having sent no request to any endpoint.
C15_ConfigFailFast ==
  secrets # SecretNames =>
    /\ \A forceRefresh \in BOOLEAN, res \in TokenResponses(tokenCalls + 1) :
         LET r == getAccessToken(TokenCache, now, secrets, forceRefresh, res)
         IN r.outcome # "cached" =>
              r.outcome = "throw" /\ r.error = ConfigError /\ ~r.called
    /\ fetch.pc \in {"start", "failed"}
    /\ fetch.pc = "failed" => fetch.error = ConfigError
    /\ fetch.requests = 0 /\ tokenCalls = 0
    /\ fetch.listCalls = <<>> /\ fetch.turns = <<>>

\* A fetch that ended for lack of the refresh token.
C15_Witness ==
  /\ "AMAZON_SP_REFRESH_TOKEN" \notin secrets
  /\ fetch.pc = "failed"

RdtFallbackUsed ==
  /\ fetch.pc \in {"list", "listed", "items", "done", "failed"}
  /\ fetch.rdtToken \in {Tok(k) : k \in 1..tokenCalls}
  /\ fetch.pc = "list" /\ fetch.listCalls = <<>> => fetch.rdtToken = fetch.accessToken
  /\ \A i \in 1..Len(fetch.listCalls) : fetch.listCalls[i].tokens[1] = fetch.rdtToken
  /\ fetch.pc = "failed" =>
       /\ fetch.listCalls # <<>>
       /\ fetch.error \in {AuthError, OrdersApiError, RateLimitError, LoginError, NoTokenError}

\* C18 as stated: when the restricted data token for the order-list path is
\* refused the fetch goes on with the access token, and the errors list of a
\* fetch that returns contains the degraded-address warning.
C18_RdtFailureAlwaysWarns ==
  ~fetch.useRdt =>
    /\ RdtFallbackUsed
    /\ fetch.pc = "done" => DegradedWarning \in Range(fetch.errors)

\* C18, amended: when the restricted data token for the order-list path is
\* refused the fetch goes on with the access token, and once the list calls
\* are over its errors list starts with the degraded-address warning exactly
\* when at least one order was listed; with no order listed, or with the
\* restricted data token granted, the warning is not in the list.
C18_RdtFailureWarnsIfOrders ==
  /\ ~fetch.useRdt => RdtFallbackUsed
  /\ fetch.pc \in {"items", "done"} =>
       LET warned == {i \in 1..Len(fetch.errors) : fetch.errors[i] = DegradedWarning}
       IN warned = (IF ~fetch.useRdt /\ fetch.allOrders # <<>> THEN {1} ELSE {})

\* A fetch that returned the warning after the fallback, orders having been listed.
C18_Witness ==
  /\ fetch.pc = "done" /\ ~fetch.useRdt
  /\ fetch.allOrders # <<>>
  /\ DegradedWarning \in Range(fetch.errors)

\* The error strings that name the order, and the mapped items that belong to it.
ErrorsNaming(orderId) == {k \in 1..Len(fetch.errors) : fetch.errors[k].order = orderId}

ItemsOf(orderId) == {k \in 1..Len(fetch.mapped) : fetch.mapped[k].orderId = orderId}

\* C19: the order loop takes the listed orders in order and reaches every one
\* of them before the fetch returns, whatever happened to the orders before;
\* an order whose item fetch fails (response not OK, or an exception) has
\* exactly one error string naming it and no mapped item; an order whose item
\* fetch succeeds has no error string; a cancelled order is passed over
\* without any request, error string or mapped item.
C19_OrderFailureIsolated ==
  fetch.pc \in {"items", "done"} =>
    /\ Len(fetch.turns) = fetch.idx - 1
    /\ Len(fetch.turns) <= Len(fetch.allOrders)
    /\ fetch.pc = "done" => Len(fetch.turns) = Len(fetch.allOrders)
    /\ \A i \in 1..Len(fetch.turns) :
         LET order == fetch.allOrders[i]
             turn == fetch.turns[i]
         IN /\ turn.order = order.AmazonOrderId
            /\ order.OrderStatus = "Canceled" =>
                 /\ turn.outcome = "skipped" /\ turn.requests = 0
                 /\ ErrorsNaming(turn.order) = {} /\ ItemsOf(turn.order) = {}
            /\ order.OrderStatus # "Canceled" =>
                 /\ turn.outcome \in {"ok", "notOk", "thrown"}
                 /\ turn.requests >= 2
                 /\ turn.outcome \in {"notOk", "thrown"} =>
                      Cardinality(ErrorsNaming(turn.order)) = 1 /\ ItemsOf(turn.order) = {}
                 /\ turn.outcome = "ok" => ErrorsNaming(turn.order) = {}
    /\ \A k \in 1..Len(fetch.errors) :
         fetch.errors[k] = DegradedWarning
           \/ \E i \in 1..Len(fetch.turns) : fetch.turns[i].order = fetch.errors[k].order

\* A fetch that returned mapped items of an order that came after a cancelled
\* order and after an order whose item fetch failed.
C19_Witness ==
  /\ fetch.pc = "done"
  /\ Len(fetch.turns) = Len(RemoteOrders)
  /\ fetch.turns[1].outcome \in {"notOk", "thrown"}
  /\ fetch.turns[2].outcome = "skipped"
  /\ fetch.turns[3].outcome = "ok"
  /\ ItemsOf(fetch.turns[3].order) # {}

\* An upload whose content parseFile cannot read, or reads without a record.
NoRecords(upload) ==
  upload.hasFile /\ (upload.parseThrows \/ Len(filterRecords(upload.rows)) = 0)

\* The response is an error with a message, not a report.
IsErrorResponse(res) == res.status = 400 /\ DOMAIN res.body = {"message"}

\* C20: in every state of the store, an order file or a shipping manifest
\* whose content cannot be parsed or yields no record is answered with an
\* error message and status 400, not with a report, and the orders table and
\* its serial are left as they were: nothing is inserted, nothing is updated.
C20_NoRecordsNothingPersisted ==
  /\ \A upload \in OrderFiles :
       NoRecords(upload) =>
         LET r == importFile(orders, nextId, upload)
         IN IsErrorResponse(r.response) /\ r.db = orders /\ r.serial = nextId
  /\ \A upload \in Manifests :
       NoRecords(upload) =>
         LET r == importShipping(orders, upload)
         IN IsErrorResponse(r.response) /\ r.db = orders
  /\ response.op \in {"import", "import-shipping"} /\ response.status = 400 =>
       DOMAIN response.body = {"message"}

\* A file without records was refused while the table held an order that is
\* still open.
C20_Witness ==
  /\ response.op = "import" /\ response.status = 400
  /\ response.body.message = "Keine Datensätze in der Datei gefunden"
  /\ \E o \in orders : o.status = "Offen"

\* The rows of the mapped candidates that carry an identifier (not empty, not
\* the bare marker) which no earlier row of the file carries.
KeptRows(mapped) ==
  {i \in 1..Len(mapped) :
     /\ mapped[i].orderItemId \notin {<<>>, Null, EbayMarker}
     /\ \A k \in 1..(i - 1) : mapped[k].orderItemId # mapped[i].orderItemId}

\* C21: a row that maps to an empty orderItemId (for an eBay row: no sales
\* record, transaction or order number) or to the bare marker is left out of
\* the batch without failing the import, and the list handed to createOrders
\* is exactly the other rows that carry an identifier seen for the first
\* time, in file order; each of them is stored afterwards.
C21_BadRowDropped ==
  \A u \in OrderFiles :
    ParsedRows(u) # <<>> =>
      LET mapped == mapRecords(ParsedRows(u))
          kept == KeptRows(mapped)
          orderList == dedupBatch(mapped)
          r == importFile(orders, nextId, u)
      IN /\ Len(orderList) = Cardinality(kept)
         /\ \A i \in kept : orderList[Cardinality({k \in kept : k <= i})] = mapped[i]
         /\ r.response.status = 200
         /\ r.response.body.imported + r.response.body.duplicates = Cardinality(kept)
         /\ \A i \in kept : mapped[i].orderItemId \in StoredIds(r.db)

\* The store after a file whose first row has no identifier and whose second
\* row was imported.
C21_Witness ==
  /\ response.op = "import" /\ response.status = 200
  /\ response.body.imported = 1 /\ response.body.duplicates = 0
  /\ KeptRows(mapRecords(<<ANoKey, A2>>)) = {2}
  /\ orders = importFile({}, 1, Upload(<<ANoKey, A2>>)).db

ShippingKeys == {"shippingCarrier", "trackingNumber", "shippingDate"}

\* The partial updates of the three shipping fields: each absent, null, empty
\* or a value; with no status, or with either status, sent along.
PartialUpdates ==
  LET shipping == UNION {[present -> {Null, <<>>, DHL}] : present \in SUBSET ShippingKeys}
      statuses == {[x \in {} |-> ""], [status |-> "Versendet"], [status |-> "Offen"]}
  IN {s @@ st : s \in shipping, st \in statuses}

\* C22: for every stored order and every partial update, each of carrier,
\* tracking number and shipping date is afterwards the incoming value when
\* the update carries the field (null and the empty string included) and the
\* stored value when it does not, and the stored status is "Versendet" exactly
\* when all three are then non-empty and "Offen" otherwise, whatever status
\* the update carried; no other order changes.
C22_StatusFromEffectiveValues ==
  \A o \in orders : \A data \in PartialUpdates :
    LET after == updateOrder(orders, o.id, data)
        row == CHOOSE n \in after : n.id = o.id
        effective(f) == IF f \in DOMAIN data THEN data[f] ELSE o[f]
    IN /\ Cardinality({n \in after : n.id = o.id}) = 1
       /\ after \ {row} = orders \ {o}
       /\ \A f \in ShippingKeys : row[f] = effective(f)
       /\ row.status = (IF \A f \in ShippingKeys : effective(f) \notin {Null, <<>>}
                        THEN "Versendet" ELSE "Offen")

\* An update that carried carrier, tracking number and date has left its
\* order shipped.
C22_Witness ==
  /\ response.op = "patch" /\ response.status = 200
  /\ response.body.shippingCarrier = DHL /\ response.body.shippingDate = Today
  /\ response.body.status = "Versendet"
  /\ \E o \in orders : o.id = response.body.id /\ o.status = "Versendet"

(***************************************************************************)
(* Properties of the header search (SpecHeader).                           *)
(***************************************************************************)
\* The number of lines before the first line that holds a character other
\* than separators, quotes and white space.
LeadingCount(lines) ==
  LET real == {i \in 1..Len(lines) :
                 \E c \in 1..Len(lines[i]) : lines[i][c] \notin {";", ",", "\t", " ", "\""}}
  IN IF real = {} THEN Len(lines) ELSE (CHOOSE i \in real : \A j \in real : i <= j) - 1

\* C23: a file with k lines that are blank or made of separators only, k in
\* 0..5, followed by its header row is parsed with that header row: the
\* delimiter is detected on it and the tokenizer takes the column names from it.
C23_HeaderBehindLeadingLines ==
  LET k == LeadingCount(delimIn) IN
  delimOut # "none" /\ k <= 5 /\ k < Len(delimIn) =>
    /\ parseFileColumns(delimIn) = delimIn[k + 1]
    /\ delimOut = detectDelimiter(delimIn[k + 1])

(***************************************************************************)
(* Properties of the quantity field (SpecQuantity).                        *)
(***************************************************************************)
\* The source quantity of the input: the text of the cell the mapper reads
\* (the empty text when there is none), or the number of the remote item.
SourceQuantityText ==
  IF mapIn.kind = "amazon" THEN Cell(mapIn.r, "quantity-purchased")
  ELSE OrElse(Cell(mapIn.r, "Anzahl"), Cell(mapIn.r, "Menge"))

\* C24: the quantity a mapper produces is an integer of at least 1 for every
\* value of the source quantity, and it is 1 when the source quantity is
\* absent or does not start with a number.
C24_QuantityAtLeastOne ==
  mapOut # NotMapped =>
    /\ mapOut.quantity \in Int /\ mapOut.quantity >= 1
    /\ mapIn.kind = "remote" /\ "QuantityOrdered" \notin DOMAIN mapIn.item =>
         mapOut.quantity = 1
    /\ mapIn.kind # "remote" /\ parseInt(SourceQuantityText).nan => mapOut.quantity = 1

(***************************************************************************)
(* Pacing of the remote requests (SpecFetch).                              *)
(***************************************************************************)
\* C25: every order-list call after the first starts at least 2000 ms after
\* the call before it was answered, so that each of its requests, the
\* repetitions after 429 and after 403 included, comes after that wait; and
\* every request of an order's turn (restricted data token, item request, its
\* repetitions after 429 and after 403) is sent at least 500 ms after the
\* turn began.
C25_PacingHonoured ==
  /\ \A i \in 1..Len(fetch.listCalls) :
       /\ fetch.listCalls[i].start <= fetch.listCalls[i].end
       /\ i > 1 => fetch.listCalls[i].start >= fetch.listCalls[i - 1].end + 2000
  /\ fetch.pc = "list" /\ fetch.listCalls # <<>> =>
       now >= fetch.listCalls[Len(fetch.listCalls)].end + 2000
  /\ \A i \in 1..Len(fetch.turns) :
       LET turn == fetch.turns[i]
       IN /\ Len(turn.requestsAt) = turn.requests
          /\ \A k \in 1..Len(turn.requestsAt) :
               /\ turn.requestsAt[k] >= turn.start + 500
               /\ turn.requestsAt[k] <= now
               /\ k > 1 => turn.requestsAt[k - 1] <= turn.requestsAt[k]

\* A fetch whose second list call was repeated after a 403, and one of whose
\* item requests was repeated after a 403.
C25_Witness ==
  /\ Len(fetch.listCalls) = 2
  /\ fetch.listCalls[2].retries = 1
  /\ \E i \in 1..Len(fetch.turns) : fetch.turns[i].requests = 3

\* C26: a manifest row with an empty reference changes nothing.  Any other
\* row has exactly one outcome: (a) the orders with its reference as orderId,
\* or when there are none the one fuzzy candidate, are updated and counted,
\* with one fuzzyMatched entry in the fuzzy case and none in the exact case;
\* (b) with no exact match and several candidates the reference is added to
\* ambiguous; (c) with no exact match and no candidate it is added to
\* notFound.  In (b) and (c) no order is updated, and no row adds its
\* reference to both lists.
C26_OneOutcomePerRow ==
  \A r \in ManifestRowsUsed, acc \in Accumulators :
    LET before == RowState(orders, acc)
        after == processRow(before, r)
        referenz == Trim(Cell(r, "Referenz"))
        exact == {o \in orders : o.orderId = referenz}
        fuzzy == {o \in orders : PredicatesHeld(r, o) >= 2}
        targets == IF exact # {} THEN exact
                   ELSE IF Cardinality(fuzzy) = 1 THEN fuzzy ELSE {}
        added(list) == Len(after[list]) - Len(before[list])
    IN IF referenz = <<>> THEN after = before
       ELSE /\ added("notFound") + added("ambiguous") + (IF targets # {} THEN 1 ELSE 0) = 1
            /\ after.db = {IF o \in targets THEN updatedRow(o, shippingUpdate(r)) ELSE o :
                             o \in orders}
            /\ after.updated = before.updated + Cardinality(targets)
            /\ after.notFound = (IF exact = {} /\ fuzzy = {}
                                 THEN Append(before.notFound, referenz)
                                 ELSE before.notFound)
            /\ after.ambiguous = (IF exact = {} /\ Cardinality(fuzzy) > 1
                                  THEN Append(before.ambiguous, referenz)
                                  ELSE before.ambiguous)
            /\ IF exact = {} /\ Cardinality(fuzzy) = 1
               THEN /\ added("fuzzyMatched") = 1
                    /\ SubSeq(after.fuzzyMatched, 1, Len(before.fuzzyMatched))
                         = before.fuzzyMatched
               ELSE after.fuzzyMatched = before.fuzzyMatched

\* A manifest whose only row found its order by name and city has been
\* reconciled.
C26_Witness ==
  /\ response.op = "import-shipping" /\ response.status = 200
  /\ response.body.updated = 1
  /\ Len(response.body.fuzzyMatched) = 1
  /\ response.body.notFound = <<>> /\ response.body.ambiguous = <<>>
  /\ \E o \in orders : o.shipper = LogoiX /\ o.orderId # X9

\* The identifiers of the mapped rows of an order file.
MappedIds(u) ==
  LET mapped == mapRecords(filterRecords(u.rows))
  IN {mapped[i].orderItemId : i \in 1..Len(mapped)}

\* The accounting of an import report against a set of batch identifiers:
\* duplicates is the length of duplicateIds, imported + duplicates is the
\* number of identifiers, duplicateIds lists each identifier of the batch
\* that was stored before once, and the store grew by imported records.
ReportAccounts(before, after, ids) ==
  LET body == after.response.body
  IN /\ body.duplicates = Len(body.duplicateIds)
     /\ body.imported + body.duplicates = Cardinality(ids)
     /\ Range(body.duplicateIds) = ids \cap StoredIds(before)
     /\ Len(body.duplicateIds) = Cardinality(Range(body.duplicateIds))
     /\ before \subseteq after.db
     /\ Cardinality(after.db) = Cardinality(before) + body.imported

\* C27 as stated: every import report accounts for the distinct non-empty
\* orderItemIds of the mapped rows: duplicates = length(duplicateIds),
\* imported + duplicates = their number, an identifier repeated in the file
\* adds nothing to duplicates or duplicateIds, and the store grows by
\* imported records.
C27_ReportAccountsNonEmptyIds ==
  \A u \in OrderFiles :
    LET after == importFile(orders, nextId, u)
    IN after.response.status = 200 =>
         ReportAccounts(orders, after, {id \in MappedIds(u) : Truthy(id)})

\* C27, amended: the same accounting over the distinct orderItemIds that are
\* neither empty nor the bare marker "ebay-".
C27_ReportAccountsUsableIds ==
  \A u \in OrderFiles :
    LET after == importFile(orders, nextId, u)
    IN after.response.status = 200 =>
         ReportAccounts(orders, after,
                        {id \in MappedIds(u) : Truthy(id) /\ id # EbayMarker})

\* An import has reported one new record and one identifier already stored.
C27_Witness ==
  /\ response.op = "import" /\ response.status = 200
  /\ response.body.imported = 1
  /\ response.body.duplicates = 1
  /\ response.body.duplicateIds = <<I1>>
  /\ Cardinality(orders) = 2

\* The orders a manifest row resolves to: those with its reference as
\* orderId, or when there are none the one order that satisfies at least two
\* of the three predicates.
ResolvedOrders(db, r) ==
  LET referenz == Trim(Cell(r, "Referenz"))
      exact == {o.id : o \in {x \in db : x.orderId = referenz}}
      fuzzy == {o.id : o \in {x \in db : PredicatesHeld(r, x) >= 2}}
  IN IF referenz = <<>> THEN {}
     ELSE IF exact # {} THEN exact
     ELSE IF Cardinality(fuzzy) = 1 THEN fuzzy ELSE {}

\* The value of a manifest cell as it is stored: null when it is empty.
RowValue(r, column) ==
  IF Trim(Cell(r, column)) = <<>> THEN Null ELSE Trim(Cell(r, column))

\* The order carries the shipping values of the manifest row.
CarriesRow(o, r) ==
  /\ o.shippingCarrier = RowValue(r, "Lieferant")
  /\ o.trackingNumber = RowValue(r, "Paketnummer Lieferant")
  /\ o.shippingDate = Today
  /\ o.shipper = LogoiX
  /\ o.status = "Versendet" <=>
       (Trim(Cell(r, "Lieferant")) # <<>> /\ Trim(Cell(r, "Paketnummer Lieferant")) # <<>>)
  /\ o.status \in {"Versendet", "Offen"}

\* C29: after the rows of a manifest have been processed, an order that some
\* row resolved to carries the carrier and the tracking number of the last
\* such row in file order (null for an empty cell), the import date and the
\* shipper LogoiX, and its status is Versendet exactly when that row's
\* carrier and tracking number are both non-empty, whatever its shipping
\* fields were before; an order no row resolved to is unchanged.  Checked
\* for the manifests of the request set, for each of their rows alone and for
\* every pair of rows that resolve to a common order.
C29_LastRowOverwrites ==
  LET st == RowState(orders, CHOOSE a \in Accumulators : a.updated = 0)
      \* both tables are built once per store (@@ yields an explicit function)
      resolved == [r \in ManifestRowsUsed |-> ResolvedOrders(orders, r)] @@ <<>>
      first == [r \in ManifestRowsUsed |-> processRow(st, r)] @@ <<>>
      Settled(after, rows) ==
        /\ {o.id : o \in after} = {o.id : o \in orders}
        /\ \A o \in after :
             LET hits == {i \in 1..Len(rows) : o.id \in resolved[rows[i]]}
             IN IF hits = {} THEN o \in orders
                ELSE CarriesRow(o, rows[CHOOSE i \in hits : \A j \in hits : j <= i])
  IN /\ \A u \in Manifests :
          Settled(processRows(st, ParsedRows(u)).db, ParsedRows(u))
     /\ \A r \in ManifestRowsUsed : Settled(first[r].db, <<r>>)
     /\ \A r1 \in ManifestRowsUsed, r2 \in ManifestRowsUsed :
          resolved[r1] \cap resolved[r2] # {} =>
            Settled(processRow(first[r1], r2).db, <<r1, r2>>)

\* A manifest row without a carrier has been reconciled with its order, which
\* is open afterwards although it has a tracking number and a shipping date.
C29_Witness ==
  /\ response.op = "import-shipping" /\ response.status = 200
  /\ response.body.updated >= 1
  /\ response.body.notFound = <<>> /\ response.body.ambiguous = <<>>
  /\ \E o \in orders :
       /\ o.orderId = O1
       /\ o.shippingCarrier = Null
       /\ o.trackingNumber = T1
       /\ o.shippingDate = Today
       /\ o.shipper = LogoiX
       /\ o.status = "Offen"

\* A getAccessToken call returns or throws in this step.
CallEnds(p) == callers[p].pc # "done" /\ callers'[p].pc = "done"

\* C28: with getAccessToken calls executed one at a time, the cache is Absent
\* (no token and expiry 0) or holds a token with the expiry computed from the
\* response that carried the token: every step that changes the cache either
\* clears it or stores the token of one answer of the token endpoint together
\* with now + (expires_in - 60) * 1000 of that answer.  A call that throws
\* (missing secret, answer not OK, answer without access_token) leaves the
\* cache Absent, and a call that returns a token leaves that token cached.
C28_CacheAbsentOrFromOneResponse ==
  [][/\ cachedAccessToken' = Null => tokenExpiresAt' = 0
     /\ <<cachedAccessToken', tokenExpiresAt'>> # <<cachedAccessToken, tokenExpiresAt>> =>
          \/ cachedAccessToken' = Null /\ tokenExpiresAt' = 0
          \/ \E p \in Callers :
               /\ callers[p].pc = "awaitToken" /\ CallEnds(p)
               /\ callers'[p].outcome = "return"
               /\ cachedAccessToken' = callers'[p].token
               /\ cachedAccessToken' = Tok(callers[p].req)
               /\ tokenExpiresAt' = now + (callers'[p].expiresIn - 60) * 1000
     /\ \A p \in Callers :
          CallEnds(p) =>
            /\ callers'[p].outcome = "throw" =>
                 cachedAccessToken' = Null /\ tokenExpiresAt' = 0
            /\ callers'[p].outcome \in {"return", "cached"} =>
                 cachedAccessToken' = callers'[p].token /\ cachedAccessToken' # Null
    ]_vars

\* A forced refresh has failed at the token endpoint after an earlier call had
\* cached a token, and the cache is Absent.
C28_Witness ==
  /\ \E p \in Callers :
       /\ callers[p].pc = "done" /\ callers[p].force
       /\ callers[p].outcome = "throw" /\ callers[p].error = LoginError
       /\ callers[p].req >= 2
  /\ cachedAccessToken = Null /\ tokenExpiresAt = 0

\* The turns of the order loop whose item request ran out of attempts.
RateLimitedTurns ==
  {i \in 1..Len(fetch.turns) :
     ItemsThrownError(fetch.turns[i].order, RateLimitError) \in Range(fetch.errors)}

\* An item request answered with 429 on all three attempts ends the turn of
\* its order with one error string for that order and nothing else, and the
\* loop goes on: the turn is recorded, and the fetch is in the loop or has
\* returned with a turn for every listed order.
RateLimitIsPerOrder ==
  /\ (fetch.pc = "items" /\ fetch.idx <= Len(fetch.allOrders)
        /\ fetch.allOrders[fetch.idx].OrderStatus # "Canceled") =>
       \A rdtRes \in RdtResponses :
         LET order == fetch.allOrders[fetch.idx]
             r == fetchOrderItems(order, fetch.accessToken, rdtRes, <<429, 429, 429>>,
                                  <<200>>, [readable |-> FALSE, items |-> <<>>])
         IN /\ r.outcome = "thrown"
            /\ r.errors = <<ItemsThrownError(order.AmazonOrderId, RateLimitError)>>
            /\ r.mapped = <<>>
            /\ r.requests = 1 + DefaultMaxRetries
  /\ \A i \in RateLimitedTurns :
       /\ fetch.pc \in {"items", "done"}
       /\ fetch.turns[i].outcome = "thrown"
       /\ fetch.turns[i].requests = 1 + DefaultMaxRetries
       /\ Cardinality(ErrorsNaming(fetch.turns[i].order)) = 1
       /\ ItemsOf(fetch.turns[i].order) = {}
       /\ fetch.idx > i
       /\ fetch.pc = "done" => Len(fetch.turns) = Len(fetch.allOrders)

\* C30 as stated: once the order-list pagination has completed the fetch
\* never throws, it goes through the order loop and returns; an item request
\* answered with 429 on all three attempts is one per-order error and the
\* loop continues.
C30_AfterListAlwaysReturns ==
  [][/\ fetch.pc = "listed" => fetch'.pc = "items"
     /\ fetch.pc = "items" => fetch'.pc \in {"items", "done"}
     /\ RateLimitIsPerOrder'
    ]_vars

\* C30, amended: after pagination the fetch can throw only in the
\* getAccessToken call that precedes the order loop, when the token endpoint
\* is asked and rejects the request; once the order loop has begun the fetch
\* never throws and returns, and an item request answered with 429 on all
\* three attempts is one per-order error after which the loop continues.
C30_OrderLoopAlwaysReturns ==
  [][/\ fetch.pc = "listed" =>
          \/ fetch'.pc = "items"
          \/ /\ fetch'.pc = "failed"
             /\ fetch'.error \in {LoginError, NoTokenError}
             /\ tokenCalls' = tokenCalls + 1
     /\ fetch.pc = "items" => fetch'.pc \in {"items", "done"}
     /\ RateLimitIsPerOrder'
    ]_vars

\* A fetch has returned after the item request of its first order ran out of
\* attempts and the items of a later order were fetched.
C30_Witness ==
  /\ fetch.pc = "done"
  /\ \E i \in RateLimitedTurns : \E j \in 1..Len(fetch.turns) :
       /\ i < j
       /\ fetch.turns[j].outcome = "ok"
       /\ ItemsOf(fetch.turns[j].order) # {}

====
